---- MODULE Spec2Model ----
(***************************************************************************)
(* The Compulife relay of gscottwatkins/compulife-proxy: the request       *)
(* translators (buildQuoteParams, buildHealthParams, buildCompulifeParams),*)
(* the credential payload of proxyPrivate and the multiplexed POST /       *)
(* handler, for the five server variants held in the repository:           *)
(*   "1.0"  src/unnamed/part_000 lines   1-212                             *)
(*   "2.0"  src/unnamed/part_000 lines 214-574                             *)
(*   "6.1"  src/unnamed/part_001 lines   1-417                             *)
(*   "6.3"  src/unnamed/part_001 lines 418-1110                            *)
(*   "7.2"  src/files/server.js                                            *)
(***************************************************************************)
EXTENDS Naturals, Sequences, FiniteSets

VARIABLES
  ver,     \* which server variant is running
  env,     \* process.env as read once at startup
  req,     \* the inbound POST / request being handled
  pc,      \* position of the POST / handler: "idle", "fetching", "done"
  calls,   \* outbound calls issued for the current request, in order
  resps,   \* HTTP responses sent for the current request, in order
  fn,      \* function harness: the function applied ("none" before the call)
  arg,     \* function harness: the mapping handed to the function
  out,     \* function harness: the object the function returned
  handlers,           \* hub: the request handlers in flight, by slot
  cachedAccessToken,  \* hub: let cachedAccessToken (server.js:109)
  tokenExpiresAt,     \* hub: let tokenExpiresAt (server.js:110)
  now                 \* hub: the clock read by Date.now(), in ms

vars == << ver, env, req, pc, calls, resps, fn, arg, out,
           handlers, cachedAccessToken, tokenExpiresAt, now >>

\* The state of the hub routes; the specifications of the POST / handler
\* alone and of the functions alone leave it as it is at startup.
hubVars == << handlers, cachedAccessToken, tokenExpiresAt, now >>

Versions == {"1.0", "2.0", "6.1", "6.3", "7.2"}

----------------------------------------------------------------------------
(* JavaScript values. One record shape for every value so that any two     *)
(* values can be compared: t is the type tag, s the text of a string, n    *)
(* the number (or 1/0 for true/false), l the elements of an array of       *)
(* strings, o the entries of an object.                                    *)

Str(s) ==
  [t |-> "str", s |-> s, n |-> 0, l |-> << >>, o |-> << >>]

Num(n) ==
  [t |-> "num", s |-> "", n |-> n, l |-> << >>, o |-> << >>]

Bool(b) ==
  [t |-> "bool", s |-> "", n |-> IF b THEN 1 ELSE 0, l |-> << >>, o |-> << >>]

Null ==
  [t |-> "null", s |-> "", n |-> 0, l |-> << >>, o |-> << >>]

\* The value of a property the object does not have.
Undefined ==
  [t |-> "undef", s |-> "", n |-> 0, l |-> << >>, o |-> << >>]

Arr(l) ==
  [t |-> "arr", s |-> "", n |-> 0, l |-> l, o |-> << >>]

ObjV(o) ==
  [t |-> "obj", s |-> "", n |-> 0, l |-> << >>, o |-> o]

\* JavaScript truthiness (the operand of !, || and if).
Truthy(v) ==
  CASE v.t = "str" -> v.s # ""
    [] v.t = "num" -> v.n # 0
    [] v.t = "bool" -> v.n = 1
    [] v.t = "null" -> FALSE
    [] v.t = "undef" -> FALSE
    [] OTHER -> TRUE

Digit(d) ==
  CASE d = 0 -> "0" [] d = 1 -> "1" [] d = 2 -> "2" [] d = 3 -> "3"
    [] d = 4 -> "4" [] d = 5 -> "5" [] d = 6 -> "6" [] d = 7 -> "7"
    [] d = 8 -> "8" [] d = 9 -> "9"

RECURSIVE NumStr(_)
NumStr(n) ==
  IF n < 10 THEN Digit(n) ELSE NumStr(n \div 10) \o Digit(n % 10)

RECURSIVE Join(_, _)
Join(l, i) ==
  IF i > Len(l) THEN ""
  ELSE IF i = Len(l) THEN l[i]
  ELSE l[i] \o "," \o Join(l, i + 1)

\* String(v), also the conversion a template literal applies.
String(v) ==
  CASE v.t = "str" -> v.s
    [] v.t = "num" -> NumStr(v.n)
    [] v.t = "bool" -> IF v.n = 1 THEN "true" ELSE "false"
    [] v.t = "null" -> "null"
    [] v.t = "undef" -> "undefined"
    [] v.t = "arr" -> Join(v.l, 1)
    [] OTHER -> "[object Object]"

----------------------------------------------------------------------------
(* Objects built by the code are sequences of entries [k, v] in insertion  *)
(* order, the order JSON.stringify emits. A request body is only ever      *)
(* read by key: it is a function from its keys to their values, and        *)
(* body[k] !== undefined is k \in DOMAIN body (JSON carries no undefined). *)

Entry(k, val) ==
  [k |-> k, v |-> val]

Keys(o) ==
  {o[i].k : i \in 1..Len(o)}

Has(o, k) ==
  \E i \in 1..Len(o) : o[i].k = k

Get(o, k) ==
  o[CHOOSE i \in 1..Len(o) : o[i].k = k].v

\* o[k] = v: an existing key keeps its place and takes the new value.
Put(o, k, v) ==
  IF Has(o, k)
  THEN [i \in 1..Len(o) |-> IF o[i].k = k THEN Entry(k, v) ELSE o[i]]
  ELSE Append(o, Entry(k, v))

\* A mapping as an object; its entries in one fixed order.
RECURSIVE ObjOf(_, _)
ObjOf(m, ks) ==
  IF ks = {} THEN << >>
  ELSE LET k == CHOOSE x \in ks : TRUE
       IN  << Entry(k, m[k]) >> \o ObjOf(m, ks \ {k})

\* { ...target, ...src }: every entry of src assigned onto target in order.
\* The keys of an object are distinct, so the assignments amount to: each
\* entry of target takes the value src gives its key, and the entries of
\* src under new keys follow in the order of src.
Spread(target, src) ==
  LET isNew(e) == ~Has(target, e.k)
  IN  [i \in 1..Len(target) |->
         IF Has(src, target[i].k)
         THEN Entry(target[i].k, Get(src, target[i].k))
         ELSE target[i]]
      \o SelectSeq(src, isNew)

----------------------------------------------------------------------------
(* The field lists of the translators, as written in the source.           *)

required ==
  << "State", "BirthMonth", "Birthday", "BirthYear", "Sex", "Smoker",
     "Health", "NewCategory", "FaceAmount", "ModeUsed" >>

optional ==
  << "ZipCode", "COMPINC", "PRODDIS", "CompRating", "SortOverride1",
     "ErrOnMissingZipCode", "MaxNumResults", "LANGUAGE" >>

healthFields ==
  << "DoSmokingTobacco", "DoCigarettes", "PeriodCigarettes",
     "NumCigarettes", "DoCigars", "PeriodCigars", "NumCigars", "DoPipe",
     "PeriodPipe", "DoChewingTobacco", "PeriodChewingTobacco",
     "DoNicotinePatchesOrGum", "PeriodNicotinePatchesOrGum",
     "DoHeightWeight", "Weight", "Feet", "Inches", "DoBloodPressure",
     "Systolic", "Dystolic", "BloodPressureMedication", "DoCholesterol",
     "CholesterolLevel", "HDLRatio", "CholesterolMedication",
     "PeriodCholesterol", "PeriodCholesterolControlDuration", "DoDriving",
     "HadDriversLicense", "MovingViolations0", "MovingViolations1",
     "MovingViolations2", "MovingViolations3", "MovingViolations4",
     "RecklessConviction", "DwiConviction", "SuspendedConviction",
     "MoreThanOneAccident", "PeriodRecklessConviction",
     "PeriodDwiConviction", "PeriodSuspendedConviction",
     "PeriodMoreThanOneAccident", "DoFamily", "NumDeaths", "NumContracted",
     "AgeDied00", "AgeContracted00", "IsParent00", "CVD00", "ColonCancer00",
     "AgeContracted10", "IsParent10", "CVD10", "ColonCancer10",
     "DoSubAbuse", "Alcohol", "AlcYearsSinceTreatment", "Drugs",
     "DrugsYearsSinceTreatment", "EmbeddedAccums", "EmbeddedAccumColor",
     "NoRedX" >>

\* server.js (7.2); CholesterolMedication is listed twice in the source.
fields ==
  << "State", "BirthMonth", "Birthday", "BirthYear", "Sex", "Smoker",
     "Health", "NewCategory", "FaceAmount", "ModeUsed", "Province",
     "Birthdate", "Premium", "Mode", "TermPeriod", "Plan", "TableRating",
     "InquiryType", "ResultType", "NumberOfCompanies", "DisplayFlags",
     "DropCompanies", "ZipCode", "COMPINC", "PRODDIS", "CompRating",
     "SortOverride1", "ErrOnMissingZipCode", "MaxNumResults", "LANGUAGE",
     "Alcohol", "AlcoholYearsSinceTreatment", "Asthma",
     "AsthmaRegularMedication", "BloodPressure", "BloodPressureMedication",
     "BPSystolic", "BPDiastolic", "Cancer", "CancerType",
     "CancerYearsSinceTreatment", "Cholesterol", "CholesterolMedication",
     "CholesterolReading", "Diabetes", "DiabetesType", "DiabetesA1CReading",
     "HeartDisease", "HeartType", "HeartYearsSinceTreatment", "Depression",
     "DepressionYearsSinceTreatment", "Drugs", "DrugsYearsSinceTreatment",
     "EmbeddedAccums", "EmbeddedAccumColor", "NoRedX", "DoSmokingTobacco",
     "DoCigarettes", "PeriodCigarettes", "NumCigarettes", "DoCigars",
     "PeriodCigars", "NumCigars", "DoPipe", "PeriodPipe",
     "DoChewingTobacco", "PeriodChewingTobacco", "DoNicotinePatchesOrGum",
     "PeriodNicotinePatchesOrGum", "DoHeightWeight", "Weight", "Feet",
     "Inches", "DoBloodPressure", "Systolic", "Dystolic", "DoCholesterol",
     "CholesterolLevel", "HDLRatio", "CholesterolMedication", "DoDriving",
     "HadDriversLicense", "RecklessConviction", "DwiConviction",
     "SuspendedConviction", "MoreThanOneAccident", "DoFamily", "NumDeaths",
     "NumContracted", "DoSubAbuse" >>

fields_v61 ==
  << "Province", "Sex", "Smoker", "Birthdate", "FaceAmount", "Premium",
     "Mode", "TermPeriod", "TableRating", "InquiryType", "ResultType",
     "NumberOfCompanies", "Plan", "DisplayFlags", "DropCompanies",
     "Alcohol", "AlcoholYearsSinceTreatment", "Asthma",
     "AsthmaRegularMedication", "BloodPressure", "BloodPressureMedication",
     "BPSystolic", "BPDiastolic", "Cancer", "CancerType",
     "CancerYearsSinceTreatment", "Cholesterol", "CholesterolMedication",
     "CholesterolReading", "Diabetes", "DiabetesType", "DiabetesA1CReading",
     "HeartDisease", "HeartType", "HeartYearsSinceTreatment", "Depression",
     "DepressionYearsSinceTreatment", "Drugs", "DrugsYearsSinceTreatment",
     "EmbeddedAccums", "EmbeddedAccumColor", "NoRedX" >>

fields_v63 ==
  << "Province", "Sex", "Smoker", "Birthdate", "FaceAmount", "Premium",
     "Mode", "TermPeriod", "TableRating", "InquiryType", "ResultType",
     "NumberOfCompanies", "Plan", "DisplayFlags", "DropCompanies", "State",
     "BirthMonth", "Birthday", "BirthYear", "Health", "NewCategory",
     "ModeUsed", "Alcohol", "AlcoholYearsSinceTreatment", "Asthma",
     "AsthmaRegularMedication", "BloodPressure", "BloodPressureMedication",
     "BPSystolic", "BPDiastolic", "Cancer", "CancerType",
     "CancerYearsSinceTreatment", "Cholesterol", "CholesterolMedication",
     "CholesterolReading", "Diabetes", "DiabetesType", "DiabetesA1CReading",
     "HeartDisease", "HeartType", "HeartYearsSinceTreatment", "Depression",
     "DepressionYearsSinceTreatment", "Drugs", "DrugsYearsSinceTreatment",
     "EmbeddedAccums", "EmbeddedAccumColor", "NoRedX", "CompRating",
     "SortOverride1", "LANGUAGE" >>

available ==
  << "ping", "get-states", "get-provinces", "get-logos", "get-companies",
     "get-categories", "get-company-products", "quote-compare",
     "quote-sidebyside", "quote-health" >>

----------------------------------------------------------------------------
(* Configuration, read from process.env once at startup.  An unset or      *)
(* empty variable is "" and falls back to the default after ||.            *)

AUTH_ID ==
  IF env.COMPULIFE_AUTH_ID # "" THEN env.COMPULIFE_AUTH_ID
  ELSE IF ver \in {"1.0", "2.0"} THEN "6c1B02Df8" ELSE ""

REMOTE_IP ==
  IF env.REMOTE_IP # "" THEN env.REMOTE_IP ELSE "162.220.232.99"

----------------------------------------------------------------------------
(* The translators.                                                        *)

\* A loop over the keys of body instead of the keys of list.
CopyFields_Unfiltered(params, list, body) ==
  Spread(params, [i \in 1..Len(ObjOf(body, DOMAIN body)) |->
                    Entry(ObjOf(body, DOMAIN body)[i].k,
                          Str(String(ObjOf(body, DOMAIN body)[i].v)))])

\* for (const k of list) { if (body[k] !== undefined) params[k] = String(body[k]); }
\* The loop as one expression: an entry of params whose key the loop meets
\* in body keeps its place and takes the copied value; the keys the loop
\* adds follow in the order of their first place in list.
CopyFields(params, list, body) ==
  LET copied(k) == Entry(k, Str(String(body[k])))
      met(k) == k \in DOMAIN body /\ \E i \in 1..Len(list) : list[i] = k
      adds(i) == /\ list[i] \in DOMAIN body
                 /\ ~Has(params, list[i])
                 /\ \A j \in 1..(i - 1) : list[j] # list[i]
      added == SelectSeq([i \in 1..Len(list) |-> i], adds)
  IN  [i \in 1..Len(params) |->
         IF met(params[i].k) THEN copied(params[i].k) ELSE params[i]]
      \o [n \in 1..Len(added) |-> copied(list[added[n]])]

\* if (!params.K) params.K = d;
ApplyDefault(params, k, d) ==
  IF ~Has(params, k) \/ ~Truthy(Get(params, k))
  THEN Put(params, k, Str(d))
  ELSE params

\* Variants 1.0 and 2.0 (the two copies are identical).
buildQuoteParams(body) ==
  LET p1 == CopyFields(<< >>, required, body)
      p2 == CopyFields(p1, optional, body)
      p3 == ApplyDefault(p2, "CompRating", "4")
      p4 == ApplyDefault(p3, "SortOverride1", "A")
  IN  ApplyDefault(p4, "LANGUAGE", "E")

\* A health list that repeats a key of the base lists.
buildHealthParams_Overlap(body) ==
  CopyFields(buildQuoteParams(body), healthFields \o << "CompRating" >>, body)

\* Variants 1.0 and 2.0.
buildHealthParams(body) ==
  CopyFields(buildQuoteParams(body), healthFields, body)

\* A whitelist that names a credential field.
buildCompulifeParams_Credential(body) ==
  CopyFields(<< >>, fields \o << "REMOTE_IP" >>, body)

\* Variant 7.2 (server.js).
buildCompulifeParams(body) ==
  CopyFields(<< >>, fields, body)

buildCompulifeParams_v61(body) ==
  CopyFields(<< >>, fields_v61, body)

buildCompulifeParams_v63(body) ==
  CopyFields(<< >>, fields_v63, body)

----------------------------------------------------------------------------
(* The credential payload of proxyPrivate:                                 *)
(*   1.0:    { COMPULIFEAUTHORIZATIONID: AUTH_ID, ...params }              *)
(*   others: { COMPULIFEAUTHORIZATIONID: AUTH_ID, REMOTE_IP, ...params }   *)

CredentialFields ==
  IF ver = "1.0"
  THEN << [k |-> "COMPULIFEAUTHORIZATIONID", v |-> Str(AUTH_ID)] >>
  ELSE << [k |-> "COMPULIFEAUTHORIZATIONID", v |-> Str(AUTH_ID)],
          [k |-> "REMOTE_IP", v |-> Str(REMOTE_IP)] >>

payload(params) ==
  Spread(CredentialFields, params)

----------------------------------------------------------------------------
(* The multiplexed endpoint, POST /.  A route evaluates the handler up to  *)
(* its first await and yields what the handler does there: it answers at   *)
(* once, or it issues one public or one private fetch.  A path is the      *)
(* sequence of its segments: << "CompanyList", "Life" >> is                *)
(* /CompanyList/Life.                                                      *)

\* body.k
Field(body, k) ==
  IF k \in DOMAIN body THEN body[k] ELSE Undefined

\* a || b
Or(a, b) ==
  IF Truthy(a) THEN a ELSE b

\* The texts of this model are made of unreserved characters, which
\* encodeURIComponent leaves as they are, and of "A&B".
encodeURIComponent(s) ==
  CASE s = "A&B" -> "A%26B"
    [] OTHER -> s

\* new Date().toISOString(): the clock is not part of the model.
Timestamp ==
  Str("2026-02-24T00:00:00.000Z")

\* res.json(...) without res.status(...).
Respond_Ok(status, json) ==
  [do |-> "respond", status |-> 200, json |-> json, path |-> << >>,
   params |-> << >>]

Respond(status, json) ==
  [do |-> "respond", status |-> status, json |-> json, path |-> << >>,
   params |-> << >>]

Public(path) ==
  [do |-> "public", status |-> 0, json |-> Null, path |-> path,
   params |-> << >>]

Private(path, params) ==
  [do |-> "private", status |-> 0, json |-> Null, path |-> path,
   params |-> params]

\* (req.body || {})
BodyOf(r) ==
  IF r.hasBody THEN r.body ELSE << >>

\* const action = body.action;
ActionOf_NoDefault(r) ==
  Field(BodyOf(r), "action")

\* const action = body.action || "ping";
ActionOf(r) ==
  Or(Field(BodyOf(r), "action"), Str("ping"))

\* The switch of variants 1.0 and 2.0; ping is the variant's ping answer.
LegacyRoute(r, ping) ==
  LET body == BodyOf(r)
      action == ActionOf(r)
      country == Or(Field(body, "country"), Str("us"))
      size == Or(Field(body, "size"), Str("small"))
      logos == IF country = Str("canada") THEN "CompanyLogoListCanada"
               ELSE "CompanyLogoList"
  IN  CASE action = Str("ping") -> Respond(200, ping)
        [] action = Str("get-states") -> Public(<< "StateList" >>)
        [] action = Str("get-provinces") -> Public(<< "ProvinceList" >>)
        [] action = Str("get-logos") ->
             Public(IF size = Str("default") THEN << logos >>
                    ELSE << logos, String(size) >>)
        [] action = Str("get-companies") ->
             Public(IF country = Str("canada") THEN << "CompanyListCanada" >>
                    ELSE << "CompanyList" >>)
        [] action = Str("get-categories") -> Private(<< "CategoryList" >>, << >>)
        [] action = Str("get-company-products") ->
             Private(<< "CompanyProductList" >>,
                     IF Truthy(Field(body, "COMPINC"))
                     THEN << Entry("COMPINC", body["COMPINC"]) >>
                     ELSE << >>)
        [] action = Str("quote-compare") ->
             Private(<< "request" >>, buildQuoteParams(body))
        [] action = Str("quote-sidebyside") ->
             Private(<< "sidebyside" >>, buildQuoteParams(body))
        [] action = Str("quote-health") ->
             Private(<< "request" >>, buildHealthParams(body))
        [] OTHER ->
             Respond(400, ObjV(<< Entry("error", Str("Unknown action")),
                                  Entry("action", action),
                                  Entry("available", Arr(available)) >>))

PostRoot_v1(r) ==
  LegacyRoute(r, ObjV(<< Entry("status", Str("ok")),
                         Entry("service", Str("compulife-proxy")),
                         Entry("timestamp", Timestamp),
                         Entry("auth_configured", Bool(AUTH_ID # "")) >>))

PostRoot_v2(r) ==
  LegacyRoute(r, ObjV(<< Entry("status", Str("ok")),
                         Entry("service", Str("quoteit-api-hub")),
                         Entry("timestamp", Timestamp),
                         Entry("auth_configured", Bool(AUTH_ID # "")),
                         Entry("remote_ip", Str(REMOTE_IP)) >>))

\* The cases the variants 6.1, 6.3 and 7.2 share: ping, the three public
\* lists, and the default.
HubRoute(r) ==
  LET body == BodyOf(r)
      action == ActionOf(r)
  IN  CASE action = Str("ping") ->
             Respond(200, ObjV(<< Entry("status", Str("ok")),
                                  Entry("service", Str("compulife-proxy")),
                                  Entry("timestamp", Timestamp) >>))
        [] action = Str("get-categories") -> Public(<< "CategoryList" >>)
        [] action = Str("get-companies") ->
             Public(<< "CompanyList", encodeURIComponent(
                      String(Or(Field(body, "category"), Str("Life")))) >>)
        [] action = Str("get-products") ->
             IF ~Truthy(Field(body, "company"))
             THEN Respond(400, ObjV(<< Entry("error",
                                             Str("company required")) >>))
             ELSE Public(<< "ProductList", encodeURIComponent(
                           String(body["company"])) >>)
        [] OTHER ->
             Respond(400, ObjV(<< Entry("error",
                 Str("Unknown action: " \o String(action))) >>))

\* quote-compare sent to its own endpoint, as variant 6.3 does.
PostRoot_Split(r) ==
  IF ActionOf(r) = Str("quote-sidebyside")
  THEN Private(<< "sidebyside" >>, buildCompulifeParams(BodyOf(r)))
  ELSE IF ActionOf(r) = Str("quote-compare")
  THEN Private(<< "compare" >>, buildCompulifeParams(BodyOf(r)))
  ELSE HubRoute(r)

\* Variant 7.2 (server.js).
PostRoot(r) ==
  IF ActionOf(r) \in {Str("quote-sidebyside"), Str("quote-compare")}
  THEN Private(<< "sidebyside" >>, buildCompulifeParams(BodyOf(r)))
  ELSE HubRoute(r)

PostRoot_v61(r) ==
  IF ActionOf(r) \in {Str("quote-sidebyside"), Str("quote-compare")}
  THEN Private(<< "sidebyside" >>, buildCompulifeParams_v61(BodyOf(r)))
  ELSE HubRoute(r)

PostRoot_v63(r) ==
  IF ActionOf(r) = Str("quote-sidebyside")
  THEN Private(<< "sidebyside" >>, buildCompulifeParams_v63(BodyOf(r)))
  ELSE IF ActionOf(r) \in {Str("quote-compare"), Str("quote-compareall")}
  THEN Private(<< "compare" >>, buildCompulifeParams_v63(BodyOf(r)))
  ELSE HubRoute(r)

\* The handler of the running variant.
Route(r) ==
  CASE ver = "1.0" -> PostRoot_v1(r)
    [] ver = "2.0" -> PostRoot_v2(r)
    [] ver = "6.1" -> PostRoot_v61(r)
    [] ver = "6.3" -> PostRoot_v63(r)
    [] OTHER -> PostRoot(r)

\* What proxyPublic and proxyPrivate hand to fetch: the path appended to
\* the API base and, for a private call, the object whose JSON text is the
\* COMPULIFE query parameter.
CallOf(d) ==
  [kind |-> d.do, path |-> d.path,
   payload |-> IF d.do = "private" THEN payload(d.params) ELSE << >>]

\* JSON.parse on the downstream texts of this model. An array of objects is
\* held as the array of their ids (files: [{id: "F1"}] as << "F1" >>).
JSONparse(text) ==
  CASE text = "{\"ok\":true}" ->
         [ok |-> TRUE, val |-> ObjV(<< Entry("ok", Bool(TRUE)) >>)]
    [] text = "[]" -> [ok |-> TRUE, val |-> Arr(<< >>)]
    [] text = "null" -> [ok |-> TRUE, val |-> Null]
    [] text = "{\"message\":\"denied\"}" ->
         [ok |-> TRUE, val |-> ObjV(<< Entry("message", Str("denied")) >>)]
    [] text = "{\"error\":{\"message\":\"quota\"}}" ->
         [ok |-> TRUE,
          val |-> ObjV(<< Entry("error",
                            ObjV(<< Entry("message", Str("quota")) >>)) >>)]
    [] text = "{\"access_token\":\"T1\",\"expires_in\":3600}" ->
         [ok |-> TRUE,
          val |-> ObjV(<< Entry("access_token", Str("T1")),
                          Entry("expires_in", Num(3600)) >>)]
    [] text = "{\"access_token\":\"T2\",\"expires_in\":30}" ->
         [ok |-> TRUE,
          val |-> ObjV(<< Entry("access_token", Str("T2")),
                          Entry("expires_in", Num(30)) >>)]
    [] text = "{\"files\":[{\"id\":\"F1\"}]}" ->
         [ok |-> TRUE, val |-> ObjV(<< Entry("files", Arr(<< "F1" >>)) >>)]
    [] text = "{\"files\":[{\"id\":\"F1\"},{\"id\":\"F3\"}]}" ->
         [ok |-> TRUE,
          val |-> ObjV(<< Entry("files", Arr(<< "F1", "F3" >>)) >>)]
    [] text = "{\"id\":\"F2\",\"name\":\"lead.pdf\"}" ->
         [ok |-> TRUE,
          val |-> ObjV(<< Entry("id", Str("F2")),
                          Entry("name", Str("lead.pdf")) >>)]
    [] text = "{\"signedURL\":\"/object/sign/x\"}" ->
         [ok |-> TRUE,
          val |-> ObjV(<< Entry("signedURL", Str("/object/sign/x")) >>)]
    [] text = "{\"responses\":[{\"fullTextAnnotation\":{}}]}" ->
         \* one annotation with the text "hi" and two words of confidence
         \* 0.9 and 0.81
         [ok |-> TRUE,
          val |-> ObjV(<< Entry("responses", ObjV(<< Entry("0",
                    ObjV(<< Entry("fullTextAnnotation",
                              ObjV(<< Entry("text", Str("hi")),
                                      Entry("pages", Arr(<< 90, 81 >>))
                                   >>)) >>)) >>)) >>)]
    [] text = "{\"responses\":[{\"error\":{}}]}" ->
         \* one annotation with the error message "bad image"
         [ok |-> TRUE,
          val |-> ObjV(<< Entry("responses", ObjV(<< Entry("0",
                    ObjV(<< Entry("error",
                              ObjV(<< Entry("message", Str("bad image"))
                                   >>)) >>)) >>)) >>)]
    [] OTHER -> [ok |-> FALSE, val |-> Undefined]

\* The fallback of ghlFetch in place of the dispatcher's: the raw text
\* without the downstream status.
ProxyResult_RawOnly(dr) ==
  IF JSONparse(dr.text).ok THEN JSONparse(dr.text).val
  ELSE ObjV(<< Entry("raw", Str(dr.text)) >>)

\* try { return JSON.parse(t); } catch { return { raw: t, status: r.status }; }
ProxyResult(dr) ==
  IF JSONparse(dr.text).ok THEN JSONparse(dr.text).val
  ELSE ObjV(<< Entry("raw", Str(dr.text)), Entry("status", Num(dr.status)) >>)

\* The catch block of the handler.
CaughtError(message) ==
  IF ver \in {"1.0", "2.0"}
  THEN ObjV(<< Entry("error", Str("Internal proxy error")),
               Entry("message", Str(message)) >>)
  ELSE ObjV(<< Entry("error", Bool(TRUE)), Entry("message", Str(message)) >>)

----------------------------------------------------------------------------
(* Inputs.                                                                 *)

\* The most keys, besides action, that an enumerated body holds.
MaxBodyKeys ==
  1

\* The most keys that a mapping handed to a function alone holds.
MaxArgKeys ==
  2

InValues ==
  {Str(""), Str("Z"), Num(0), Null}

\* The values of the bodies sent to the route: a falsy string, a string
\* the route compares with, and a number.
RouteValues ==
  {Str(""), Str("canada"), Num(7)}

\* One key of each kind the route reads or a list decides on.
RouteKeys ==
  {"company", "category", "country", "size", "COMPINC", "CompRating",
   "Weight", "COMPULIFEAUTHORIZATIONID", "REMOTE_IP", "Evil"}

ArgKeys ==
  {"State", "FaceAmount", "CompRating", "SortOverride1", "LANGUAGE",
   "Weight", "Province", "COMPULIFEAUTHORIZATIONID", "REMOTE_IP",
   "action", "Evil"}

ActionInputs ==
  {Str(a) : a \in {"ping", "get-states", "get-provinces", "get-logos",
                   "get-companies", "get-categories", "get-company-products",
                   "get-products", "quote-compare", "quote-sidebyside",
                   "quote-compareall", "quote-health", "bogus", ""}}
  \cup {Num(5)}

\* Every mapping of at most n of the keys to the values.
Mappings(keys, values, n) ==
  UNION {[S -> values] : S \in {T \in SUBSET keys : Cardinality(T) <= n}}

WithAction(b, a) ==
  [k \in DOMAIN b \cup {"action"} |-> IF k = "action" THEN a ELSE b[k]]

\* The request of the README's API reference, without its action.
ExampleFields ==
  [k \in {"State", "BirthMonth", "Birthday", "BirthYear", "Sex", "Smoker",
          "Health", "NewCategory", "FaceAmount", "ModeUsed"} |->
     CASE k = "State" -> Str("MS")
       [] k = "BirthMonth" -> Str("6")
       [] k = "Birthday" -> Str("15")
       [] k = "BirthYear" -> Str("1967")
       [] k = "Sex" -> Str("M")
       [] k = "Smoker" -> Str("N")
       [] k = "Health" -> Str("PP")
       [] k = "NewCategory" -> Str("5")
       [] k = "FaceAmount" -> Str("250000")
       [] k = "ModeUsed" -> Str("M")]

RouteBodies ==
  Mappings(RouteKeys, RouteValues, MaxBodyKeys) \cup {ExampleFields}

NoReq ==
  [hasBody |-> FALSE, body |-> << >>]

Requests ==
  {NoReq}
  \cup {[hasBody |-> TRUE, body |-> b] : b \in RouteBodies}
  \cup {[hasBody |-> TRUE, body |-> WithAction(b, a)] :
          b \in RouteBodies, a \in ActionInputs}

\* Every list key alone, and the small mappings over ArgKeys.
AllListKeys ==
  {required[i] : i \in 1..Len(required)}
  \cup {optional[i] : i \in 1..Len(optional)}
  \cup {healthFields[i] : i \in 1..Len(healthFields)}
  \cup {fields[i] : i \in 1..Len(fields)}
  \cup {fields_v61[i] : i \in 1..Len(fields_v61)}
  \cup {fields_v63[i] : i \in 1..Len(fields_v63)}

Args ==
  Mappings(ArgKeys, InValues, MaxArgKeys)
  \cup {[k \in {x} |-> Str("Z")] : x \in AllListKeys}
  \cup {ExampleFields}

Envs ==
  {[COMPULIFE_AUTH_ID |-> "", REMOTE_IP |-> ""],
   [COMPULIFE_AUTH_ID |-> "ENV-AUTH", REMOTE_IP |-> "10.0.0.9"]}

DownResponses ==
  {[status |-> 200, text |-> "{\"ok\":true}"],
   [status |-> 200, text |-> "<html>"],
   [status |-> 500, text |-> ""]}

----------------------------------------------------------------------------
(* Spec: one POST / request at a time through the running variant.         *)

Init ==
  /\ ver \in Versions
  /\ env \in Envs
  /\ req = NoReq
  /\ pc = "idle"
  /\ calls = << >>
  /\ resps = << >>
  /\ fn = "none"
  /\ arg = << >>
  /\ out = << >>
  /\ handlers = << >>
  /\ cachedAccessToken = Null
  /\ tokenExpiresAt = 0
  /\ now = 0

\* A request arrives and the handler runs to its first await or return.
Receive ==
  /\ pc = "idle"
  /\ \E r \in Requests :
       LET d == Route(r)
       IN  /\ req' = r
           /\ IF d.do = "respond"
              THEN /\ resps' = Append(resps, [status |-> d.status,
                                              json |-> d.json])
                   /\ calls' = calls
                   /\ pc' = "done"
              ELSE /\ calls' = Append(calls, CallOf(d))
                   /\ resps' = resps
                   /\ pc' = "fetching"
  /\ UNCHANGED << ver, env, fn, arg, out, hubVars >>

\* The downstream answers: res.json(await proxy...(...)).
FetchReturns(dr) ==
  /\ pc = "fetching"
  /\ resps' = Append(resps, [status |-> 200, json |-> ProxyResult(dr)])
  /\ pc' = "done"
  /\ UNCHANGED << ver, env, req, calls, fn, arg, out, hubVars >>

\* fetch or r.text() rejects: the catch block answers 500.
FetchThrows ==
  /\ pc = "fetching"
  /\ resps' = Append(resps, [status |-> 500,
                             json |-> CaughtError("fetch failed")])
  /\ pc' = "done"
  /\ UNCHANGED << ver, env, req, calls, fn, arg, out, hubVars >>

\* The handler has returned; the next request starts from a clean record.
NextRequest ==
  /\ pc = "done"
  /\ pc' = "idle"
  /\ req' = NoReq
  /\ calls' = << >>
  /\ resps' = << >>
  /\ UNCHANGED << ver, env, fn, arg, out, hubVars >>

Next ==
  \/ Receive
  \/ \E dr \in DownResponses : FetchReturns(dr)
  \/ FetchThrows
  \/ NextRequest

Spec ==
  Init /\ [][Next]_vars

----------------------------------------------------------------------------
(* SpecFn: each translator, and the payload construction of proxyPrivate,  *)
(* applied once to a mapping drawn at the start.                           *)

InitFn ==
  /\ ver \in Versions
  /\ env \in Envs
  /\ arg \in Args
  /\ fn = "none"
  /\ out = << >>
  /\ req = NoReq
  /\ pc = "idle"
  /\ calls = << >>
  /\ resps = << >>
  /\ handlers = << >>
  /\ cachedAccessToken = Null
  /\ tokenExpiresAt = 0
  /\ now = 0

Call(name, result) ==
  /\ fn = "none"
  /\ fn' = name
  /\ out' = result
  /\ UNCHANGED << ver, env, req, pc, calls, resps, arg, hubVars >>

CallBuildQuoteParams ==
  ver \in {"1.0", "2.0"} /\ Call("buildQuoteParams", buildQuoteParams(arg))

CallBuildHealthParams ==
  ver \in {"1.0", "2.0"} /\ Call("buildHealthParams", buildHealthParams(arg))

CallBuildCompulifeParams ==
  \/ ver = "6.1" /\ Call("buildCompulifeParams", buildCompulifeParams_v61(arg))
  \/ ver = "6.3" /\ Call("buildCompulifeParams", buildCompulifeParams_v63(arg))
  \/ ver = "7.2" /\ Call("buildCompulifeParams", buildCompulifeParams(arg))

CallPayload ==
  Call("payload", payload(ObjOf(arg, DOMAIN arg)))

NextFn ==
  \/ CallBuildQuoteParams
  \/ CallBuildHealthParams
  \/ CallBuildCompulifeParams
  \/ CallPayload

SpecFn ==
  InitFn /\ [][NextFn]_vars

----------------------------------------------------------------------------
(* Properties of the translators and of the payload construction, under    *)
(* SpecFn.                                                                 *)

ListSet(list) ==
  {list[i] : i \in 1..Len(list)}

Translators ==
  {"buildQuoteParams", "buildHealthParams", "buildCompulifeParams"}

\* The whitelist of the translator that was applied.
Whitelist ==
  CASE fn = "buildQuoteParams" -> ListSet(required) \cup ListSet(optional)
    [] fn = "buildHealthParams" ->
         ListSet(required) \cup ListSet(optional) \cup ListSet(healthFields)
    [] fn = "buildCompulifeParams" /\ ver = "6.1" -> ListSet(fields_v61)
    [] fn = "buildCompulifeParams" /\ ver = "6.3" -> ListSet(fields_v63)
    [] fn = "buildCompulifeParams" /\ ver = "7.2" -> ListSet(fields)
    [] OTHER -> {}

DefaultOf(k) ==
  CASE k = "CompRating" -> "4"
    [] k = "SortOverride1" -> "A"
    [] k = "LANGUAGE" -> "E"

\* The keys the applied translator has defaults for.
DefaultKeys ==
  IF fn \in {"buildQuoteParams", "buildHealthParams"}
  THEN {"CompRating", "SortOverride1", "LANGUAGE"}
  ELSE {}

\* C1: every key of the object a translator returns is a member of that
\* translator's whitelist; no other key of the inbound body, "action"
\* included, reaches it.
C1_KeysWithinWhitelist ==
  fn \in Translators => Keys(out) \subseteq Whitelist

C1_Witness ==
  /\ fn = "buildCompulifeParams"
  /\ ver = "7.2"
  /\ DOMAIN arg = {"action", "State"}
  /\ Keys(out) = {"State"}

\* C3: the keys of the object a translator returns are exactly the inbound
\* keys that are in the whitelist together with the default keys absent
\* from the inbound body, and every copied value is the string form of the
\* inbound value.
C3_ExactKeysAndValues ==
  fn \in Translators =>
    /\ Keys(out) = (DOMAIN arg \cap Whitelist) \cup (DefaultKeys \ DOMAIN arg)
    /\ \A k \in DOMAIN arg \cap Whitelist :
         Has(out, k) /\ Get(out, k) = Str(String(arg[k]))

\* C4: in the translation that defines defaults, a default key absent from
\* the inbound body takes its default and a default key present in the
\* inbound body, with a falsy value too, keeps the string form of the
\* inbound value.
C4_DefaultIffAbsent ==
  fn \in {"buildQuoteParams", "buildHealthParams"} =>
    \A k \in DefaultKeys :
      /\ Has(out, k)
      /\ Get(out, k) = IF k \in DOMAIN arg THEN Str(String(arg[k]))
                       ELSE Str(DefaultOf(k))

\* C5: whatever mapping the payload construction of proxyPrivate is given,
\* the two credential fields of the payload are the configured values.
C5_CredentialsNotOverridable ==
  (fn = "payload" /\ ver # "1.0") =>
    /\ Has(out, "COMPULIFEAUTHORIZATIONID")
    /\ Get(out, "COMPULIFEAUTHORIZATIONID") = Str(AUTH_ID)
    /\ Has(out, "REMOTE_IP")
    /\ Get(out, "REMOTE_IP") = Str(REMOTE_IP)

\* C6: every key of buildQuoteParams(body) is a key of
\* buildHealthParams(body) with the same value.
C6_HealthExtendsBase ==
  fn = "buildHealthParams" =>
    \A i \in 1..Len(buildQuoteParams(arg)) :
      /\ Has(out, buildQuoteParams(arg)[i].k)
      /\ Get(out, buildQuoteParams(arg)[i].k) = buildQuoteParams(arg)[i].v

C6_Witness ==
  /\ fn = "buildHealthParams"
  /\ DOMAIN arg = {"CompRating", "Weight"}
  /\ arg["CompRating"] = Str("")
  /\ Has(out, "Weight")
  /\ Get(out, "CompRating") = Str("4")

----------------------------------------------------------------------------
(* Properties of the POST / handler, under Spec.                           *)

\* The actions the switch of the running variant has a case for.
Recognized ==
  CASE ver \in {"1.0", "2.0"} -> {Str(a) : a \in ListSet(available)}
    [] ver = "6.3" ->
         {Str("ping"), Str("get-categories"), Str("get-companies"),
          Str("get-products"), Str("quote-sidebyside"), Str("quote-compare"),
          Str("quote-compareall")}
    [] OTHER ->
         {Str("ping"), Str("get-categories"), Str("get-companies"),
          Str("get-products"), Str("quote-sidebyside"), Str("quote-compare")}

PrivateCalls ==
  {i \in 1..Len(calls) : calls[i].kind = "private"}

AuthFromConfig(p) ==
  /\ Has(p, "COMPULIFEAUTHORIZATIONID")
  /\ Get(p, "COMPULIFEAUTHORIZATIONID") = Str(AUTH_ID)

RemoteIpFromConfig(p) ==
  /\ Has(p, "REMOTE_IP")
  /\ Get(p, "REMOTE_IP") = Str(REMOTE_IP)

NamesAction(json) ==
  \/ Has(json.o, "action") /\ Get(json.o, "action") = ActionOf(req)
  \/ /\ Has(json.o, "error")
     /\ Get(json.o, "error") = Str("Unknown action: " \o String(ActionOf(req)))

\* The 400 answer enumerates the recognized actions.
ListsActions(json) ==
  /\ Has(json.o, "available")
  /\ Get(json.o, "available").t = "arr"
  /\ {Str(a) : a \in ListSet(Get(json.o, "available").l)} = Recognized

Endpoints(action) ==
  CASE action = Str("get-states") -> {"StateList"}
    [] action = Str("get-provinces") -> {"ProvinceList"}
    [] action = Str("get-logos") -> {"CompanyLogoList", "CompanyLogoListCanada"}
    [] action = Str("get-companies") ->
         IF ver \in {"1.0", "2.0"} THEN {"CompanyList", "CompanyListCanada"}
         ELSE {"CompanyList"}
    [] action = Str("get-categories") -> {"CategoryList"}
    [] action = Str("get-company-products") -> {"CompanyProductList"}
    [] action = Str("get-products") -> {"ProductList"}
    [] action = Str("quote-sidebyside") -> {"sidebyside"}
    [] action = Str("quote-compare") ->
         IF ver \in {"1.0", "2.0"} THEN {"request"}
         ELSE IF ver = "6.3" THEN {"compare"} ELSE {"sidebyside"}
    [] action = Str("quote-compareall") -> {"compare"}
    [] action = Str("quote-health") -> {"request"}
    [] OTHER -> {}

ActionAbsent ==
  ~req.hasBody \/ "action" \notin DOMAIN req.body

\* C8: a request never has more than one downstream call nor more than one
\* response; while its call is in flight no response has been sent, and
\* once the handler is done exactly one has; a request without an action
\* is answered as ping without any call, an action that is not recognized
\* is answered 400 without any call, and the call of a recognized action
\* goes to an endpoint of that action.
C8_OneHandlerOneCallOneResponse ==
  /\ Len(calls) <= 1
  /\ Len(resps) <= 1
  /\ pc = "idle" => (calls = << >> /\ resps = << >>)
  /\ pc = "fetching" => (Len(calls) = 1 /\ resps = << >>)
  /\ pc = "done" => Len(resps) = 1
  /\ (pc # "idle" /\ ActionAbsent) =>
       /\ pc = "done"
       /\ calls = << >>
       /\ resps[1].status = 200
       /\ Get(resps[1].json.o, "status") = Str("ok")
  /\ (pc # "idle" /\ ActionOf(req) \notin Recognized) =>
       (calls = << >> /\ resps[1].status = 400)
  /\ \A i \in 1..Len(calls) :
       /\ ActionOf(req) \in Recognized
       /\ calls[i].path[1] \in Endpoints(ActionOf(req))

C8_Witness ==
  /\ pc = "done"
  /\ ver = "7.2"
  /\ ActionOf(req) = Str("get-companies")
  /\ Len(calls) = 1
  /\ calls[1].path = << "CompanyList", "Life" >>
  /\ Len(resps) = 1

\* The request with quote-sidebyside and quote-compare exchanged.
OtherQuoteAction(r) ==
  [r EXCEPT !.body = WithAction(r.body,
      IF ActionOf(r) = Str("quote-compare") THEN Str("quote-sidebyside")
      ELSE Str("quote-compare"))]

IsQuotePair ==
  /\ pc = "fetching"
  /\ ActionOf(req) \in {Str("quote-sidebyside"), Str("quote-compare")}

\* C9 as stated: the call issued for quote-sidebyside or quote-compare is
\* the call issued for the same body under the other of the two names.
C9_QuoteActionsAreAliases ==
  IsQuotePair => calls[1] = CallOf(Route(OtherQuoteAction(req)))

\* C9 as amended: under either name the same translator builds the same
\* payload in every variant; the path is the same, /sidebyside, in the
\* variants 6.1 and 7.2 only: quote-compare goes to /request in 1.0 and
\* 2.0 and to /compare in 6.3, quote-sidebyside to /sidebyside everywhere.
C9_SamePayloadSamePathIn61And72 ==
  IsQuotePair =>
    /\ calls[1].kind = "private"
    /\ calls[1].payload = CallOf(Route(OtherQuoteAction(req))).payload
    /\ calls[1].path =
         IF ActionOf(req) = Str("quote-sidebyside") THEN << "sidebyside" >>
         ELSE IF ver \in {"1.0", "2.0"} THEN << "request" >>
         ELSE IF ver = "6.3" THEN << "compare" >>
         ELSE << "sidebyside" >>
    /\ ver \in {"6.1", "7.2"} =>
         calls[1] = CallOf(Route(OtherQuoteAction(req)))

C9_Witness ==
  /\ IsQuotePair
  /\ ver = "7.2"
  /\ ActionOf(req) = Str("quote-compare")
  /\ "CompRating" \in DOMAIN req.body
  /\ Has(calls[1].payload, "CompRating")
  /\ calls[1].path = << "sidebyside" >>

\* C10: for the README's quote-compare request the payload holds the ten
\* fields of the request, the three defaulted fields and the two credential
\* fields, and no other key.
C10_ExamplePayloadKeys ==
  (/\ pc = "fetching"
   /\ req.hasBody
   /\ req.body = WithAction(ExampleFields, Str("quote-compare"))) =>
    Keys(calls[1].payload) =
      DOMAIN ExampleFields
      \cup {"CompRating", "SortOverride1", "LANGUAGE"}
      \cup {"COMPULIFEAUTHORIZATIONID", "REMOTE_IP"}

----------------------------------------------------------------------------
(* The hub routes of src/files/server.js (variant 7.2; variant 6.3 holds   *)
(* the same code for every route but the two /supabase ones): the CRM      *)
(* pass-through routes over ghlFetch, /anthropic, /vision/ocr,             *)
(* /supabase/upload, /supabase/signed-url and /drive/upload with its       *)
(* cached access token. A handler runs from one await to the next in one   *)
(* step; several handlers may be in flight, one per slot.                  *)

GHL_API_KEY ==
  env.GHL_API_KEY

GHL_LOCATION_ID ==
  env.GHL_LOCATION_ID

ANTHROPIC_API_KEY ==
  env.ANTHROPIC_API_KEY

SUPABASE_SERVICE_KEY ==
  env.SUPABASE_SERVICE_KEY

\* The defaults of SUPABASE_URL and SUPABASE_BUCKET.
SUPABASE_URL ==
  "https://bclpztdoneomugvrdxnb.supabase.co"

SUPABASE_BUCKET ==
  "lead-images"

GOOGLE_CLIENT_ID ==
  env.GOOGLE_CLIENT_ID

GOOGLE_CLIENT_SECRET ==
  env.GOOGLE_CLIENT_SECRET

GOOGLE_REFRESH_TOKEN ==
  env.GOOGLE_REFRESH_TOKEN

GOOGLE_DRIVE_FOLDER_ID ==
  env.GOOGLE_DRIVE_FOLDER_ID

GCP_VISION_API_KEY ==
  env.GCP_VISION_API_KEY

\* res.ok of a fetch Response.
Ok(dr) ==
  dr.status >= 200 /\ dr.status <= 299

\* v.k for a value v that is neither null nor undefined.
Prop(v, k) ==
  IF v.t = "obj" /\ Has(v.o, k) THEN Get(v.o, k) ELSE Undefined

\* Reading a property of v throws a TypeError.
Nullish(v) ==
  v.t \in {"null", "undef"}

\* An array of objects or a nested literal: the elements under their
\* indices.
ArrOf(elems) ==
  ObjV([i \in 1..Len(elems) |-> Entry(NumStr(i - 1), elems[i])])

\* req.body as a value: undefined when no body was parsed.
BodyValue(h) ==
  IF h.hasBody THEN ObjV(ObjOf(h.body, DOMAIN h.body)) ELSE Undefined

\* A handler that has not started. issuedAt records the time at which the
\* handler issued its token refresh, if it issued one.
IdleHandler ==
  [route |-> "none", hasBody |-> FALSE, body |-> << >>, pc |-> "idle",
   calls |-> << >>, resps |-> << >>, down |-> << >>,
   accessToken |-> Undefined, parentFolderId |-> Undefined,
   targetFolderId |-> Undefined, uploadData |-> Undefined, issuedAt |-> 0]

\* The handler of a route entered with request r.
Enter(route, r) ==
  [IdleHandler EXCEPT !.route = route, !.hasBody = r.hasBody,
                      !.body = r.body, !.pc = "running"]

\* res.status(status).json(json), after which the handler returns.
Answer(h, status, json) ==
  [h EXCEPT !.resps = Append(@, [status |-> status, json |-> json]),
            !.pc = "done"]

\* await fetch(...): the call goes out and the handler waits at step.
Await(h, step, call) ==
  [h EXCEPT !.calls = Append(@, call), !.pc = step]

\* The awaited response dr has arrived.
Got(h, dr) ==
  [h EXCEPT !.down = Append(@, dr)]

\* A downstream error answered under 500 instead of its own status.
Propagate_As500(h, dr, json) ==
  Answer(Got(h, dr), 500, json)

\* res.status(resp.status).json(json): the downstream status handed on.
Propagate(h, dr, json) ==
  Answer(Got(h, dr), dr.status, json)

\* { error: true, message } of the hub's catch blocks and checks.
ErrorMessage(message) ==
  ObjV(<< Entry("error", Bool(TRUE)), Entry("message", Str(message)) >>)

\* A server that forgets its token whenever a handler answers 500.
Step_DropsToken(s, h) ==
  /\ handlers' = [handlers EXCEPT ![s] = h]
  /\ IF h.pc = "done" /\ h.resps[1].status = 500
     THEN cachedAccessToken' = Null /\ tokenExpiresAt' = 0
     ELSE UNCHANGED << cachedAccessToken, tokenExpiresAt >>
  /\ UNCHANGED << ver, env, req, pc, calls, resps, fn, arg, out, now >>

\* The handler in slot s becomes h; nothing else changes.
Step(s, h) ==
  /\ handlers' = [handlers EXCEPT ![s] = h]
  /\ UNCHANGED << ver, env, req, pc, calls, resps, fn, arg, out,
                  cachedAccessToken, tokenExpiresAt, now >>

----------------------------------------------------------------------------
(* ghlFetch and the /ghl routes.                                           *)

\* What ghlFetch returns, or the error it throws, once the CRM has
\* answered dr. The texts of this model are shorter than 200 characters,
\* so text.substring(0, 200) is the text.
ghlFetch(dr) ==
  LET p == JSONparse(dr.text)
      data == IF p.ok THEN p.val
              ELSE ObjV(<< Entry("raw", Str(dr.text)) >>)
  IN  IF ~Ok(dr)
      THEN IF Nullish(data)
           THEN [throws |-> TRUE,
                 val |-> Str("Cannot read properties of null")]
           ELSE [throws |-> FALSE,
                 val |-> ObjV(<< Entry("error", Bool(TRUE)),
                                 Entry("status", Num(dr.status)),
                                 Entry("message",
                                       Or(Or(Prop(data, "message"),
                                             Prop(data, "msg")),
                                          Str(dr.text))),
                                 Entry("data", data) >>)]
      ELSE [throws |-> FALSE, val |-> data]

\* The request ghlFetch sends: opts.body only for a truthy body of a POST
\* or PUT.
GhlCall(method, path, body) ==
  [to |-> "ghl", step |-> "crm", method |-> method, path |-> path,
   auth |-> GHL_API_KEY,
   body |-> IF Truthy(body) /\ method \in {"POST", "PUT"}
            THEN body ELSE Undefined]

\* { locationId: GHL_LOCATION_ID, ...req.body }: the request's own
\* locationId wins.
WithLocation_ClientWins(h) ==
  ObjV(Spread(<< Entry("locationId", Str(GHL_LOCATION_ID)) >>,
              IF h.hasBody THEN ObjOf(h.body, DOMAIN h.body) ELSE << >>))

\* { ...req.body, locationId: GHL_LOCATION_ID }
WithLocation(h) ==
  ObjV(Put(IF h.hasBody THEN ObjOf(h.body, DOMAIN h.body) ELSE << >>,
           "locationId", Str(GHL_LOCATION_ID)))

\* The routes that hand ghlFetch a path and a body read off the request
\* without reading a property of req.body: method, route, CRM path and
\* which body.
GhlPlainRoutes ==
  {[route |-> "POST /ghl/contacts", method |-> "POST",
    path |-> "/contacts/", body |-> "located"],
   [route |-> "GET /ghl/contacts/search", method |-> "GET",
    path |-> "/contacts/?locationId=&query=&limit=", body |-> "none"],
   [route |-> "GET /ghl/contacts/:id", method |-> "GET",
    path |-> "/contacts/:id", body |-> "none"],
   [route |-> "PUT /ghl/contacts/:id", method |-> "PUT",
    path |-> "/contacts/:id", body |-> "body"],
   [route |-> "POST /ghl/contacts/:id/tags", method |-> "POST",
    path |-> "/contacts/:id/tags", body |-> "body"],
   [route |-> "POST /ghl/contacts/:id/tasks", method |-> "POST",
    path |-> "/contacts/:id/tasks", body |-> "body"],
   [route |-> "GET /ghl/conversations/:contactId", method |-> "GET",
    path |-> "/conversations/search?locationId=&contactId=",
    body |-> "none"],
   [route |-> "GET /ghl/conversations/:conversationId/messages",
    method |-> "GET", path |-> "/conversations/:conversationId/messages",
    body |-> "none"],
   [route |-> "GET /ghl/calendars", method |-> "GET",
    path |-> "/calendars/?locationId=", body |-> "none"],
   [route |-> "GET /ghl/calendars/events", method |-> "GET",
    path |-> "/calendars/events?locationId=", body |-> "none"],
   [route |-> "DELETE /ghl/calendars/events/:eventId", method |-> "DELETE",
    path |-> "/calendars/events/:eventId", body |-> "none"],
   [route |-> "GET /ghl/users", method |-> "GET",
    path |-> "/users/?locationId=", body |-> "none"],
   [route |-> "GET /ghl/pipelines", method |-> "GET",
    path |-> "/opportunities/pipelines?locationId=", body |-> "none"],
   [route |-> "POST /ghl/opportunities", method |-> "POST",
    path |-> "/opportunities/", body |-> "located"],
   [route |-> "PUT /ghl/opportunities/:id", method |-> "PUT",
    path |-> "/opportunities/:id", body |-> "body"]}

\* The routes that build the CRM body from properties of req.body, and so
\* throw a TypeError when req.body is undefined.
GhlBuiltRoutes ==
  {[route |-> "POST /ghl/contacts/:id/notes", method |-> "POST",
    path |-> "/contacts/:id/notes"],
   [route |-> "POST /ghl/conversations/messages", method |-> "POST",
    path |-> "/conversations/messages"],
   [route |-> "POST /ghl/calendars/events", method |-> "POST",
    path |-> "/calendars/events"]}

\* A property of the request body, undefined when the body lacks it.
In(h, k) ==
  IF k \in DOMAIN h.body THEN h.body[k] ELSE Undefined

\* The entries whose value is not undefined: what JSON.stringify keeps.
Defined(o) ==
  LET kept(e) == e.v.t # "undef"
  IN  SelectSeq(o, kept)

\* The CRM body of a built route.
GhlBuiltBody(g, h) ==
  CASE g.route = "POST /ghl/contacts/:id/notes" ->
         ObjV(Defined(<< Entry("body", Or(In(h, "body"), In(h, "note"))),
                         Entry("userId", In(h, "userId")) >>))
    [] g.route = "POST /ghl/conversations/messages" ->
         ObjV(Defined(
           << Entry("type", Or(In(h, "type"), Str("SMS"))),
              Entry("contactId", In(h, "contactId")),
              Entry("message", In(h, "message")) >>
           \o (IF Truthy(In(h, "subject"))
               THEN << Entry("subject", In(h, "subject")) >> ELSE << >>)
           \o (IF Truthy(In(h, "html"))
               THEN << Entry("html", In(h, "html")) >> ELSE << >>)
           \o (IF Truthy(In(h, "emailFrom"))
               THEN << Entry("emailFrom", In(h, "emailFrom")) >> ELSE << >>)
           \o (IF Truthy(In(h, "attachments"))
               THEN << Entry("attachments", In(h, "attachments")) >>
               ELSE << >>)))
    [] g.route = "POST /ghl/calendars/events" ->
         ObjV(Defined(
           << Entry("locationId", Str(GHL_LOCATION_ID)),
              Entry("calendarId", In(h, "calendarId")),
              Entry("contactId", In(h, "contactId")),
              Entry("startTime", In(h, "startTime")),
              Entry("endTime", In(h, "endTime")),
              Entry("title", Or(In(h, "title"), Str("Insurance Appointment"))),
              Entry("appointmentStatus",
                    Or(In(h, "appointmentStatus"), Str("new"))),
              Entry("assignedUserId",
                    Or(In(h, "assignedUserId"), In(h, "closerId"))),
              Entry("notes", Or(In(h, "notes"), Str(""))) >>))

\* The TypeError of reading a property of an undefined req.body.
BodyTypeError ==
  ErrorMessage("Cannot read properties of undefined")

\* app.<method>("/ghl/..."): a plain route up to its await of ghlFetch.
GhlPlainHandler(g, h) ==
  Await(h, "crm",
        GhlCall(g.method, g.path,
                CASE g.body = "located" -> WithLocation(h)
                  [] g.body = "body" -> BodyValue(h)
                  [] OTHER -> Undefined))

\* A built route up to its await of ghlFetch, or to its catch block.
GhlBuiltHandler(g, h) ==
  IF ~h.hasBody THEN Answer(h, 500, BodyTypeError)
  ELSE Await(h, "crm", GhlCall(g.method, g.path, GhlBuiltBody(g, h)))

\* res.json(await ghlFetch(...)) once the CRM has answered dr.
GhlReturn(h, dr) ==
  LET g == ghlFetch(dr)
  IN  IF g.throws THEN Answer(Got(h, dr), 500, ErrorMessage(g.val.s))
      ELSE Answer(Got(h, dr), 200, g.val)

\* The answer of POST /ghl/phone/call; the phone numbers of this model
\* hold only characters that replace(/[^+\d]/g, "") keeps.
DialAnswer(h, ghlResult) ==
  ObjV(Defined(<< Entry("success", Bool(TRUE)),
                  Entry("action", Str("dial")),
                  Entry("phone", In(h, "phone")),
                  Entry("contactId", In(h, "contactId")),
                  Entry("telUri",
                        Str("tel:" \o String(Or(In(h, "phone"), Str(""))))),
                  Entry("ghlLog", ghlResult) >>))

\* app.post("/ghl/phone/call") up to its await, answer or catch block.
GhlPhoneCallHandler(h) ==
  IF ~h.hasBody THEN Answer(h, 500, BodyTypeError)
  ELSE IF Truthy(In(h, "contactId"))
  THEN Await(h, "crm-log",
             GhlCall("POST", "/conversations/messages",
                     ObjV(<< Entry("type", Str("Call")),
                             Entry("contactId", In(h, "contactId")),
                             Entry("message",
                                   Str("Outbound call initiated to "
                                       \o String(In(h, "phone")))) >>)))
  ELSE Answer(h, 200, DialAnswer(h, Null))

\* app.post("/ghl/phone/call") once the CRM has answered dr.
GhlPhoneCallReturn(h, dr) ==
  LET g == ghlFetch(dr)
  IN  IF g.throws THEN Answer(Got(h, dr), 500, ErrorMessage(g.val.s))
      ELSE Answer(Got(h, dr), 200, DialAnswer(h, g.val))

----------------------------------------------------------------------------
(* POST /anthropic.                                                        *)

\* The expanded request without its defaults.
AnthropicMessage_NoDefaults(h) ==
  ObjV(<< Entry("model", Str("claude-sonnet-4-20250514")),
          Entry("max_tokens", Num(4096)),
          Entry("messages",
            ArrOf(<< ObjV(<< Entry("role", Str("user")),
              Entry("content",
                ArrOf(<< ObjV(<< Entry("type", Str("image")),
                                 Entry("source",
                                   ObjV(<< Entry("type", Str("base64")),
                                           Entry("media_type",
                                                 In(h, "media_type")),
                                           Entry("data", In(h, "image"))
                                        >>)) >>),
                         ObjV(<< Entry("type", Str("text")),
                                 Entry("text", In(h, "prompt"))
                              >>) >>)) >>) >>)) >>)

\* The request body of the simplified form.
AnthropicMessage(h) ==
  ObjV(<< Entry("model", Str("claude-sonnet-4-20250514")),
          Entry("max_tokens", Num(4096)),
          Entry("messages",
            ArrOf(<< ObjV(<< Entry("role", Str("user")),
              Entry("content",
                ArrOf(<< ObjV(<< Entry("type", Str("image")),
                                 Entry("source",
                                   ObjV(<< Entry("type", Str("base64")),
                                           Entry("media_type",
                                                 Or(In(h, "media_type"),
                                                    Str("image/png"))),
                                           Entry("data", In(h, "image"))
                                        >>)) >>),
                         ObjV(<< Entry("type", Str("text")),
                                 Entry("text",
                                       Or(In(h, "prompt"),
                                          Str("Extract all text from this lead card. Return JSON.")))
                              >>) >>)) >>) >>)) >>)

AnthropicCall(body) ==
  [to |-> "anthropic", step |-> "messages", method |-> "POST",
   path |-> "https://api.anthropic.com/v1/messages",
   auth |-> ANTHROPIC_API_KEY, body |-> body]

\* The handler without its configuration check.
PostAnthropic_Unchecked(h) ==
  IF ~h.hasBody THEN Answer(h, 500, BodyTypeError)
  ELSE IF Truthy(In(h, "model")) /\ Truthy(In(h, "messages"))
  THEN Await(h, "messages", AnthropicCall(BodyValue(h)))
  ELSE IF ~Truthy(In(h, "image"))
  THEN Answer(h, 400,
              ObjV(<< Entry("error", Str("image (base64) required")) >>))
  ELSE Await(h, "messages", AnthropicCall(AnthropicMessage(h)))

\* app.post("/anthropic") up to its await, answer or catch block.
PostAnthropic(h) ==
  IF ANTHROPIC_API_KEY = ""
  THEN Answer(h, 500,
              ObjV(<< Entry("error",
                            Str("ANTHROPIC_API_KEY not configured")) >>))
  ELSE IF ~h.hasBody THEN Answer(h, 500, BodyTypeError)
  ELSE IF Truthy(In(h, "model")) /\ Truthy(In(h, "messages"))
  THEN Await(h, "messages", AnthropicCall(BodyValue(h)))
  ELSE IF ~Truthy(In(h, "image"))
  THEN Answer(h, 400,
              ObjV(<< Entry("error", Str("image (base64) required")) >>))
  ELSE Await(h, "messages", AnthropicCall(AnthropicMessage(h)))

\* The SyntaxError of response.json() on a body that is not JSON.
JsonSyntaxError ==
  ErrorMessage("Unexpected token in JSON")

\* A route without a catch block: the failed parse of the AI API's answer
\* ends the handler and nothing is sent.
AnthropicReturn_Uncaught(h, dr) ==
  IF JSONparse(dr.text).ok
  THEN Answer(Got(h, dr), 200, JSONparse(dr.text).val)
  ELSE [Got(h, dr) EXCEPT !.pc = "done"]

\* res.json(await r.json()) once the AI API has answered dr.
AnthropicReturn(h, dr) ==
  IF JSONparse(dr.text).ok
  THEN Answer(Got(h, dr), 200, JSONparse(dr.text).val)
  ELSE Answer(Got(h, dr), 500, JsonSyntaxError)

----------------------------------------------------------------------------
(* POST /vision/ocr, POST /supabase/upload, GET /supabase/signed-url.      *)

ErrorWith(v) ==
  ObjV(<< Entry("error", Bool(TRUE)), Entry("message", v) >>)

\* v?.k
OptProp(v, k) ==
  IF Nullish(v) THEN Undefined ELSE Prop(v, k)

\* The TypeError of reading a property of a null response body.
NullTypeError ==
  ErrorMessage("Cannot read properties of null")

\* The handler with its two checks in the other order.
PostVisionOcr_FieldFirst(h) ==
  IF ~h.hasBody THEN Answer(h, 500, BodyTypeError)
  ELSE IF ~Truthy(In(h, "imageData"))
  THEN Answer(h, 400, ErrorMessage("imageData (base64) required"))
  ELSE IF GCP_VISION_API_KEY = ""
  THEN Answer(h, 500, ErrorMessage("GCP_VISION_API_KEY not configured"))
  ELSE Await(h, "ocr",
             [to |-> "vision", step |-> "ocr", method |-> "POST",
              path |-> "https://vision.googleapis.com/v1/images:annotate",
              auth |-> GCP_VISION_API_KEY, body |-> In(h, "imageData")])

\* app.post("/vision/ocr") up to its await, answer or catch block.
PostVisionOcr(h) ==
  IF GCP_VISION_API_KEY = ""
  THEN Answer(h, 500, ErrorMessage("GCP_VISION_API_KEY not configured"))
  ELSE IF ~h.hasBody THEN Answer(h, 500, BodyTypeError)
  ELSE IF ~Truthy(In(h, "imageData"))
  THEN Answer(h, 400, ErrorMessage("imageData (base64) required"))
  ELSE Await(h, "ocr",
             [to |-> "vision", step |-> "ocr", method |-> "POST",
              path |-> "https://vision.googleapis.com/v1/images:annotate",
              auth |-> GCP_VISION_API_KEY, body |-> In(h, "imageData")])

RECURSIVE SumOf(_, _)
SumOf(l, i) ==
  IF i > Len(l) THEN 0 ELSE l[i] + SumOf(l, i + 1)

\* The confidence the handler reports for the words of the pages; the
\* pages are held as the confidences of their words, in percent and in
\* order, so Math.round((totalConf / wordCount) * 100) is the rounded mean.
Confidence(words) ==
  IF Len(words) > 0
  THEN Num((2 * SumOf(words, 1) + Len(words)) \div (2 * Len(words)))
  ELSE Null

\* app.post("/vision/ocr") once the OCR API has answered dr.
VisionReturn(h, dr) ==
  LET p == JSONparse(dr.text)
      result == p.val
      annotation == OptProp(Prop(result, "responses"), "0")
      full == OptProp(annotation, "fullTextAnnotation")
      pages == Or(OptProp(full, "pages"), Arr(<< >>))
  IN  IF ~p.ok THEN Answer(Got(h, dr), 500, JsonSyntaxError)
      ELSE IF Nullish(result) THEN Answer(Got(h, dr), 500, NullTypeError)
      ELSE IF ~Ok(dr)
      THEN Propagate(h, dr,
                  ErrorWith(Or(OptProp(Prop(result, "error"), "message"),
                               Str("Vision API error"))))
      ELSE IF Truthy(OptProp(annotation, "error"))
      THEN Answer(Got(h, dr), 400,
                  ErrorWith(Prop(Prop(annotation, "error"), "message")))
      ELSE Answer(Got(h, dr), 200,
                  ObjV(<< Entry("success", Bool(TRUE)),
                          Entry("fullText",
                                Or(OptProp(full, "text"), Str(""))),
                          Entry("confidence", Confidence(pages.l)),
                          Entry("wordCount", Num(Len(pages.l))) >>))

\* const storagePath = folder ? `${folder}/${fileName}` : fileName
StoragePath(h) ==
  IF Truthy(In(h, "folder"))
  THEN Str(String(In(h, "folder")) \o "/" \o String(In(h, "fileName")))
  ELSE In(h, "fileName")

\* app.post("/supabase/upload") up to its await, answer or catch block.
\* Buffer.from throws for image data that is a number.
PostSupabaseUpload(h) ==
  IF SUPABASE_SERVICE_KEY = ""
  THEN Answer(h, 500, ErrorMessage("SUPABASE_SERVICE_KEY not configured"))
  ELSE IF ~h.hasBody THEN Answer(h, 500, BodyTypeError)
  ELSE IF ~Truthy(In(h, "imageData"))
  THEN Answer(h, 400, ErrorMessage("imageData (base64) required"))
  ELSE IF In(h, "imageData").t = "num"
  THEN Answer(h, 500, ErrorMessage("The first argument must be of type string"))
  ELSE Await(h, "storage-upload",
             [to |-> "supabase", step |-> "upload", method |-> "POST",
              path |-> "/storage/v1/object/" \o SUPABASE_BUCKET \o "/"
                       \o String(StoragePath(h)),
              auth |-> SUPABASE_SERVICE_KEY, body |-> In(h, "imageData")])

\* app.post("/supabase/upload") once the storage API has answered dr.
SupabaseUploadReturn(h, dr) ==
  LET p == JSONparse(dr.text)
      uploadData == p.val
  IN  IF ~p.ok THEN Answer(Got(h, dr), 500, JsonSyntaxError)
      ELSE IF ~Ok(dr)
      THEN IF Nullish(uploadData)
           THEN Answer(Got(h, dr), 500, NullTypeError)
           ELSE Propagate(h, dr,
                       ErrorWith(Or(Or(Prop(uploadData, "error"),
                                       Prop(uploadData, "message")),
                                    Str("Upload failed"))))
      ELSE Answer(Got(h, dr), 200,
                  ObjV(Defined(
                    << Entry("success", Bool(TRUE)),
                       Entry("path", StoragePath(h)),
                       Entry("bucket", Str(SUPABASE_BUCKET)),
                       Entry("fullPath",
                             Str(SUPABASE_BUCKET \o "/"
                                 \o String(StoragePath(h)))) >>)))

\* parseInt(req.query.expires || "3600") for the query values of this
\* model.
ExpiresIn(h) ==
  IF ~Truthy(In(h, "expires")) THEN Num(3600)
  ELSE IF In(h, "expires") = Str("60") THEN Num(60)
  ELSE Null

\* app.get("/supabase/signed-url") up to its await or answer; h.body holds
\* req.query, which is never undefined.
GetSupabaseSignedUrl(h) ==
  IF SUPABASE_SERVICE_KEY = ""
  THEN Answer(h, 500, ErrorMessage("SUPABASE_SERVICE_KEY not configured"))
  ELSE IF ~Truthy(In(h, "path"))
  THEN Answer(h, 400, ErrorMessage("path query param required"))
  ELSE Await(h, "sign",
             [to |-> "supabase", step |-> "sign", method |-> "POST",
              path |-> "/storage/v1/object/sign/" \o SUPABASE_BUCKET \o "/"
                       \o String(In(h, "path")),
              auth |-> SUPABASE_SERVICE_KEY,
              body |-> ObjV(<< Entry("expiresIn", ExpiresIn(h)) >>)])

\* app.get("/supabase/signed-url") once the storage API has answered dr.
SupabaseSignReturn(h, dr) ==
  LET p == JSONparse(dr.text)
      signData == p.val
      signed == Or(Prop(signData, "signedURL"), Prop(signData, "signedUrl"))
  IN  IF ~p.ok THEN Answer(Got(h, dr), 500, JsonSyntaxError)
      ELSE IF Nullish(signData) THEN Answer(Got(h, dr), 500, NullTypeError)
      ELSE IF ~Ok(dr)
      THEN Propagate(h, dr,
                  ErrorWith(Or(Or(Prop(signData, "error"),
                                  Prop(signData, "message")),
                               Str("Sign failed"))))
      ELSE IF ~Truthy(signed)
      THEN Answer(Got(h, dr), 500, ErrorMessage("No signed URL returned"))
      ELSE Answer(Got(h, dr), 200,
                  ObjV(<< Entry("success", Bool(TRUE)),
                          Entry("signedUrl",
                                Str(SUPABASE_URL \o "/storage/v1"
                                    \o String(signed))),
                          Entry("expiresIn", ExpiresIn(h)),
                          Entry("path", In(h, "path")) >>))

----------------------------------------------------------------------------
(* POST /drive/upload: getGoogleAccessToken, findOrCreateFolder and the    *)
(* upload itself.                                                          *)

\* The margin of getGoogleAccessToken, in ms.
RefreshMarginMs ==
  60000

\* A cache that is trusted up to the recorded expiry, without the margin.
TokenFresh_NoMargin ==
  Truthy(cachedAccessToken) /\ now < tokenExpiresAt

\* if (cachedAccessToken && Date.now() < tokenExpiresAt - 60000)
TokenFresh ==
  Truthy(cachedAccessToken) /\ now + RefreshMarginMs < tokenExpiresAt

TokenCall ==
  [to |-> "google-oauth", step |-> "token", method |-> "POST",
   path |-> "https://oauth2.googleapis.com/token",
   auth |-> GOOGLE_REFRESH_TOKEN, body |-> Undefined]

SearchCall(accessToken, folderName, parentId) ==
  [to |-> "drive", step |-> "search", method |-> "GET",
   path |-> "https://www.googleapis.com/drive/v3/files?q=",
   auth |-> accessToken,
   body |-> ObjV(<< Entry("name", folderName),
                    Entry("parent", parentId) >>)]

CreateCall(accessToken, folderName, parentId) ==
  [to |-> "drive", step |-> "create", method |-> "POST",
   path |-> "https://www.googleapis.com/drive/v3/files",
   auth |-> accessToken,
   body |-> ObjV(<< Entry("name", folderName),
                    Entry("parent", parentId) >>)]

UploadCall(h) ==
  [to |-> "drive", step |-> "upload", method |-> "POST",
   path |-> "https://www.googleapis.com/upload/drive/v3/files",
   auth |-> h.accessToken,
   body |-> ObjV(<< Entry("name", Or(In(h, "fileName"),
                                  Str("lead_" \o NumStr(now) \o ".pdf"))),
                    Entry("parent", h.targetFolderId),
                    Entry("mimeType",
                          Or(In(h, "mimeType"), Str("application/pdf"))),
                    Entry("data", In(h, "fileData")) >>)]

PermissionCall(h, uploadData) ==
  [to |-> "drive", step |-> "permission", method |-> "POST",
   path |-> "https://www.googleapis.com/drive/v3/files/"
            \o String(Prop(uploadData, "id")) \o "/permissions",
   auth |-> h.accessToken,
   body |-> ObjV(<< Entry("role", Str("reader")),
                    Entry("type", Str("anyone")) >>)]

\* The handler from the target folder on: the multipart body and the
\* upload. Buffer.from throws for file data that is a number.
WithTarget(h, targetFolderId) ==
  LET t == [h EXCEPT !.targetFolderId = targetFolderId]
  IN  IF In(h, "fileData").t = "num"
      THEN Answer(t, 500,
                  ErrorMessage("The first argument must be of type string"))
      ELSE Await(t, "upload", UploadCall(t))

\* The handler from the parent folder on: the vendor folder, if any.
\* folderName.replace throws for a vendor folder that is not a string.
WithParent(h, parentFolderId) ==
  LET t == [h EXCEPT !.parentFolderId = parentFolderId]
  IN  IF ~Truthy(In(h, "vendorFolder")) THEN WithTarget(t, parentFolderId)
      ELSE IF In(h, "vendorFolder").t # "str"
      THEN Answer(t, 500,
                  ErrorMessage("folderName.replace is not a function"))
      ELSE Await(t, "search-vendor",
                 SearchCall(t.accessToken, In(h, "vendorFolder"),
                            parentFolderId))

\* The handler from the access token on: the parent folder.
WithToken(h, accessToken) ==
  LET t == [h EXCEPT !.accessToken = accessToken]
  IN  IF GOOGLE_DRIVE_FOLDER_ID # ""
      THEN WithParent(t, Str(GOOGLE_DRIVE_FOLDER_ID))
      ELSE Await(t, "search-parent",
                 SearchCall(accessToken, Str("Lead Scanner Pro"),
                            Str("root")))

\* A single-flight refresh: a handler that finds a refresh in flight waits
\* for that one instead of issuing its own.
PostDriveUpload_SingleFlight(h) ==
  IF GOOGLE_CLIENT_ID = "" \/ GOOGLE_CLIENT_SECRET = ""
     \/ GOOGLE_REFRESH_TOKEN = ""
  THEN Answer(h, 500, ErrorMessage("Google Drive not configured"))
  ELSE IF ~h.hasBody THEN Answer(h, 500, BodyTypeError)
  ELSE IF ~Truthy(In(h, "fileData"))
  THEN Answer(h, 400, ErrorMessage("fileData (base64) required"))
  ELSE IF TokenFresh THEN WithToken(h, cachedAccessToken)
  ELSE IF \E s \in DOMAIN handlers : handlers[s].pc = "token"
  THEN [h EXCEPT !.pc = "token"]
  ELSE Await([h EXCEPT !.issuedAt = now], "token", TokenCall)

\* app.post("/drive/upload") up to its first await, answer or catch block.
PostDriveUpload(h) ==
  IF GOOGLE_CLIENT_ID = "" \/ GOOGLE_CLIENT_SECRET = ""
     \/ GOOGLE_REFRESH_TOKEN = ""
  THEN Answer(h, 500, ErrorMessage("Google Drive not configured"))
  ELSE IF ~h.hasBody THEN Answer(h, 500, BodyTypeError)
  ELSE IF ~Truthy(In(h, "fileData"))
  THEN Answer(h, 400, ErrorMessage("fileData (base64) required"))
  ELSE IF TokenFresh THEN WithToken(h, cachedAccessToken)
  ELSE Await([h EXCEPT !.issuedAt = now], "token", TokenCall)

\* getGoogleAccessToken once the token endpoint has answered dr: whether
\* the refresh succeeded, and so whether the cache is written.
Refreshed(dr) ==
  /\ JSONparse(dr.text).ok
  /\ ~Nullish(JSONparse(dr.text).val)
  /\ Ok(dr)
  /\ Truthy(Prop(JSONparse(dr.text).val, "access_token"))

\* An expiry of one hour whatever the response says.
ExpiryOf_OneHour(dr) ==
  now + 3600 * 1000

\* tokenExpiresAt = Date.now() + (data.expires_in * 1000); the token
\* responses of this model all carry expires_in.
ExpiryOf(dr) ==
  now + Prop(JSONparse(dr.text).val, "expires_in").n * 1000

\* The handler once the token endpoint has answered dr.
TokenReturn(h, dr) ==
  LET p == JSONparse(dr.text)
      data == p.val
  IN  IF ~p.ok THEN Answer(Got(h, dr), 500, JsonSyntaxError)
      ELSE IF Nullish(data) THEN Answer(Got(h, dr), 500, NullTypeError)
      ELSE IF ~Refreshed(dr)
      THEN Answer(Got(h, dr), 500,
                  ErrorMessage("Failed to refresh Google token: "
                               \o String(Or(Or(Prop(data, "error_description"),
                                               Prop(data, "error")),
                                            Str("unknown")))))
      ELSE WithToken(Got(h, dr), Prop(data, "access_token"))

\* The handler from the folder id that findOrCreateFolder returned.
WithFolder(h, id) ==
  IF h.pc \in {"search-parent", "create-parent"}
  THEN WithParent(h, id) ELSE WithTarget(h, id)

\* A lookup that returns the last match instead of the first.
SearchReturn_LastMatch(h, dr) ==
  LET p == JSONparse(dr.text)
      searchData == p.val
      files == Prop(searchData, "files")
      last == h.calls[Len(h.calls)]
  IN  IF ~p.ok THEN Answer(Got(h, dr), 500, JsonSyntaxError)
      ELSE IF Nullish(searchData) THEN Answer(Got(h, dr), 500, NullTypeError)
      ELSE IF Truthy(files) /\ files.t = "arr" /\ Len(files.l) > 0
      THEN WithFolder(Got(h, dr), Str(files.l[Len(files.l)]))
      ELSE Await(Got(h, dr),
                 IF h.pc = "search-parent" THEN "create-parent"
                 ELSE "create-vendor",
                 CreateCall(h.accessToken, Prop(last.body, "name"),
                            Prop(last.body, "parent")))

\* findOrCreateFolder once the search has answered dr.
SearchReturn(h, dr) ==
  LET p == JSONparse(dr.text)
      searchData == p.val
      files == Prop(searchData, "files")
      last == h.calls[Len(h.calls)]
  IN  IF ~p.ok THEN Answer(Got(h, dr), 500, JsonSyntaxError)
      ELSE IF Nullish(searchData) THEN Answer(Got(h, dr), 500, NullTypeError)
      ELSE IF Truthy(files) /\ files.t = "arr" /\ Len(files.l) > 0
      THEN WithFolder(Got(h, dr), Str(files.l[1]))
      ELSE Await(Got(h, dr),
                 IF h.pc = "search-parent" THEN "create-parent"
                 ELSE "create-vendor",
                 CreateCall(h.accessToken, Prop(last.body, "name"),
                            Prop(last.body, "parent")))

\* findOrCreateFolder once the create has answered dr.
CreateReturn(h, dr) ==
  LET p == JSONparse(dr.text)
      createData == p.val
  IN  IF ~p.ok THEN Answer(Got(h, dr), 500, JsonSyntaxError)
      ELSE IF Nullish(createData) THEN Answer(Got(h, dr), 500, NullTypeError)
      ELSE IF ~Ok(dr)
      THEN Answer(Got(h, dr), 500,
                  ErrorMessage("Failed to create folder: "
                               \o String(Or(OptProp(Prop(createData, "error"),
                                                    "message"),
                                            Str("unknown")))))
      ELSE WithFolder(Got(h, dr), Prop(createData, "id"))

\* An upload that is tried a second time when it is refused.
UploadReturn_Retry(h, dr) ==
  LET p == JSONparse(dr.text)
      uploadData == p.val
      first == \A i \in DOMAIN h.down : h.calls[i].step # "upload"
  IN  IF ~p.ok THEN Answer(Got(h, dr), 500, JsonSyntaxError)
      ELSE IF Nullish(uploadData) THEN Answer(Got(h, dr), 500, NullTypeError)
      ELSE IF ~Ok(dr) /\ first
      THEN Await(Got(h, dr), "upload", UploadCall(h))
      ELSE IF ~Ok(dr)
      THEN Answer(Got(h, dr), dr.status,
                  ErrorWith(Or(OptProp(Prop(uploadData, "error"), "message"),
                               Str("Upload failed"))))
      ELSE Await([Got(h, dr) EXCEPT !.uploadData = uploadData],
                 "permission", PermissionCall(h, uploadData))

\* The handler once the upload has answered dr.
UploadReturn(h, dr) ==
  LET p == JSONparse(dr.text)
      uploadData == p.val
  IN  IF ~p.ok THEN Answer(Got(h, dr), 500, JsonSyntaxError)
      ELSE IF Nullish(uploadData) THEN Answer(Got(h, dr), 500, NullTypeError)
      ELSE IF ~Ok(dr)
      THEN Propagate(h, dr,
                  ErrorWith(Or(OptProp(Prop(uploadData, "error"), "message"),
                               Str("Upload failed"))))
      ELSE Await([Got(h, dr) EXCEPT !.uploadData = uploadData],
                 "permission", PermissionCall(h, uploadData))

\* A handler that reports a refused permission grant.
PermissionReturn_Checked(h, dr) ==
  IF ~Ok(dr)
  THEN Answer(Got(h, dr), dr.status, ErrorMessage("Permission failed"))
  ELSE Answer(Got(h, dr), 200,
         ObjV(Defined(
           << Entry("success", Bool(TRUE)),
              Entry("fileId", Prop(h.uploadData, "id")),
              Entry("fileName", Prop(h.uploadData, "name")),
              Entry("webViewLink", Prop(h.uploadData, "webViewLink")),
              Entry("driveUrl",
                    Str("https://drive.google.com/file/d/"
                        \o String(Prop(h.uploadData, "id"))
                        \o "/view")) >>)))

\* The handler once the permission call has answered dr: the answer is
\* not looked at.
PermissionReturn(h, dr) ==
  Answer(Got(h, dr), 200,
         ObjV(Defined(
           << Entry("success", Bool(TRUE)),
              Entry("fileId", Prop(h.uploadData, "id")),
              Entry("fileName", Prop(h.uploadData, "name")),
              Entry("webViewLink", Prop(h.uploadData, "webViewLink")),
              Entry("driveUrl",
                    Str("https://drive.google.com/file/d/"
                        \o String(Prop(h.uploadData, "id"))
                        \o "/view")) >>)))

----------------------------------------------------------------------------
(* Inputs of the hub.                                                      *)

\* The ticks the clock makes at most.
MaxTicks ==
  2

\* One tick of the clock, in ms: half the life of a one-hour token.
TickMs ==
  30 * 60 * 1000

\* A request with body b (for a GET route: with query b).
WithBody(b) ==
  [hasBody |-> TRUE, body |-> b]

NoFields ==
  [k \in {} |-> Null]

GhlRequests ==
  {NoReq, WithBody(NoFields),
   WithBody([k \in {"locationId", "name"} |->
               IF k = "locationId" THEN Str("evil") ELSE Str("Z")]),
   WithBody([k \in {"contactId", "phone", "note"} |->
               CASE k = "contactId" -> Str("c1")
                 [] k = "phone" -> Str("+15550100")
                 [] k = "note" -> Str("called")])}

AnthropicRequests ==
  {NoReq, WithBody(NoFields),
   WithBody([k \in {"model", "messages"} |->
               IF k = "model" THEN Str("m") ELSE Arr(<< "hi" >>)]),
   WithBody([k \in {"model", "messages"} |->
               IF k = "model" THEN Str("") ELSE Arr(<< "hi" >>)]),
   WithBody([k \in {"model"} |-> Str("m")]),
   WithBody([k \in {"image"} |-> Str("AAAA")]),
   WithBody([k \in {"image"} |-> Str("")]),
   WithBody([k \in {"image", "media_type", "prompt"} |->
               CASE k = "image" -> Str("AAAA")
                 [] k = "media_type" -> Str("image/jpeg")
                 [] k = "prompt" -> Str("read it")])}

VisionRequests ==
  {NoReq, WithBody(NoFields), WithBody([k \in {"imageData"} |-> Str("AAAA")])}

SupabaseUploadRequests ==
  {NoReq, WithBody(NoFields),
   WithBody([k \in {"imageData", "fileName"} |->
               IF k = "imageData" THEN Str("AAAA") ELSE Str("a.png")]),
   WithBody([k \in {"imageData", "fileName", "folder"} |->
               CASE k = "imageData" -> Str("AAAA")
                 [] k = "fileName" -> Str("a.png")
                 [] k = "folder" -> Str("acme")]),
   WithBody([k \in {"imageData"} |-> Num(7)])}

SignedUrlRequests ==
  {WithBody(NoFields), WithBody([k \in {"path"} |-> Str("acme/a.png")]),
   WithBody([k \in {"path", "expires"} |->
               IF k = "path" THEN Str("acme/a.png") ELSE Str("60")])}

DriveRequests ==
  {NoReq, WithBody(NoFields),
   WithBody([k \in {"fileData"} |-> Str("AAAA")]),
   WithBody([k \in {"fileData", "vendorFolder", "fileName"} |->
               CASE k = "fileData" -> Str("AAAA")
                 [] k = "vendorFolder" -> Str("Acme")
                 [] k = "fileName" -> Str("lead.pdf")]),
   WithBody([k \in {"fileData"} |-> Num(7)]),
   WithBody([k \in {"fileData", "vendorFolder"} |->
               IF k = "fileData" THEN Str("AAAA") ELSE Num(7)])}

RootRequests ==
  {NoReq,
   WithBody([k \in {"action"} |-> Str("get-categories")]),
   WithBody([k \in {"action"} |-> Str("get-products")]),
   WithBody([k \in {"action"} |-> Str("bogus")]),
   WithBody(WithAction(ExampleFields, Str("quote-compare")))}

\* What any downstream may answer, a status and a body text: JSON, HTML
\* or the JSON null, with a success or an error status.
CommonResponses ==
  {[status |-> 200, text |-> "{\"ok\":true}"],
   [status |-> 200, text |-> "<html>"],
   [status |-> 401, text |-> "{\"message\":\"denied\"}"],
   [status |-> 502, text |-> "<html>"],
   [status |-> 500, text |-> "null"]}

\* The answers of the token endpoint, besides the common ones.
TokenResponses ==
  {[status |-> 200,
    text |-> "{\"access_token\":\"T1\",\"expires_in\":3600}"],
   [status |-> 200, text |-> "{\"access_token\":\"T2\",\"expires_in\":30}"]}

\* The answer of a folder search that finds a folder.
SearchResponses ==
  {[status |-> 200, text |-> "{\"files\":[{\"id\":\"F1\"}]}"]}

\* The answers of a folder create or of an upload.
FileResponses ==
  {[status |-> 200, text |-> "{\"id\":\"F2\",\"name\":\"lead.pdf\"}"],
   [status |-> 403, text |-> "{\"error\":{\"message\":\"quota\"}}"]}

SignResponses ==
  {[status |-> 200, text |-> "{\"signedURL\":\"/object/sign/x\"}"]}

OcrResponses ==
  {[status |-> 200, text |-> "{\"responses\":[{\"fullTextAnnotation\":{}}]}"],
   [status |-> 200, text |-> "{\"responses\":[{\"error\":{}}]}"],
   [status |-> 403, text |-> "{\"error\":{\"message\":\"quota\"}}"]}

\* Every integration configured.
FullEnv ==
  [COMPULIFE_AUTH_ID |-> "ENV-AUTH", REMOTE_IP |-> "10.0.0.9",
   GHL_API_KEY |-> "ghl-key", GHL_LOCATION_ID |-> "loc-1",
   ANTHROPIC_API_KEY |-> "ai-key", SUPABASE_SERVICE_KEY |-> "sb-key",
   GOOGLE_CLIENT_ID |-> "g-id", GOOGLE_CLIENT_SECRET |-> "g-secret",
   GOOGLE_REFRESH_TOKEN |-> "g-refresh",
   GOOGLE_DRIVE_FOLDER_ID |-> "folder-0", GCP_VISION_API_KEY |-> "ocr-key"]

\* The settings whose absence the code or the health check looks at.
Settings ==
  {"COMPULIFE_AUTH_ID", "GHL_API_KEY", "GHL_LOCATION_ID",
   "ANTHROPIC_API_KEY", "SUPABASE_SERVICE_KEY", "GOOGLE_CLIENT_ID",
   "GOOGLE_CLIENT_SECRET", "GOOGLE_REFRESH_TOKEN",
   "GOOGLE_DRIVE_FOLDER_ID", "GCP_VISION_API_KEY"}

\* Everything set, one setting missing, or nothing set.
HubEnvs ==
  {FullEnv}
  \cup {[FullEnv EXCEPT ![k] = ""] : k \in Settings}
  \cup {[k \in DOMAIN FullEnv |-> ""]}

HubSlots ==
  {1}

----------------------------------------------------------------------------
(* SpecHub: the requests of the hub, one handler in flight.                *)

InitHub ==
  /\ ver = "7.2"
  /\ env \in HubEnvs
  /\ handlers = [s \in HubSlots |-> IdleHandler]
  /\ cachedAccessToken = Null
  /\ tokenExpiresAt = 0
  /\ now = 0
  /\ req = NoReq
  /\ pc = "idle"
  /\ calls = << >>
  /\ resps = << >>
  /\ fn = "none"
  /\ arg = << >>
  /\ out = << >>

\* A request of a plain /ghl route arrives.
OnGhlPlain(s) ==
  /\ handlers[s].pc = "idle"
  /\ \E g \in GhlPlainRoutes, r \in GhlRequests :
       Step(s, GhlPlainHandler(g, Enter(g.route, r)))

\* A request of a /ghl route that builds its CRM body arrives.
OnGhlBuilt(s) ==
  /\ handlers[s].pc = "idle"
  /\ \E g \in GhlBuiltRoutes, r \in GhlRequests :
       Step(s, GhlBuiltHandler(g, Enter(g.route, r)))

OnGhlPhoneCall(s) ==
  /\ handlers[s].pc = "idle"
  /\ \E r \in GhlRequests :
       Step(s, GhlPhoneCallHandler(Enter("POST /ghl/phone/call", r)))

\* The CRM answers the ghlFetch of a route.
OnGhlResponse(s, dr) ==
  /\ handlers[s].pc = "crm"
  /\ Step(s, GhlReturn(handlers[s], dr))

OnGhlPhoneCallResponse(s, dr) ==
  /\ handlers[s].pc = "crm-log"
  /\ Step(s, GhlPhoneCallReturn(handlers[s], dr))

OnPostAnthropic(s) ==
  /\ handlers[s].pc = "idle"
  /\ \E r \in AnthropicRequests :
       Step(s, PostAnthropic(Enter("POST /anthropic", r)))

OnAnthropicResponse(s, dr) ==
  /\ handlers[s].pc = "messages"
  /\ Step(s, AnthropicReturn(handlers[s], dr))

OnPostVisionOcr(s) ==
  /\ handlers[s].pc = "idle"
  /\ \E r \in VisionRequests :
       Step(s, PostVisionOcr(Enter("POST /vision/ocr", r)))

OnVisionResponse(s, dr) ==
  /\ handlers[s].pc = "ocr"
  /\ Step(s, VisionReturn(handlers[s], dr))

OnPostSupabaseUpload(s) ==
  /\ handlers[s].pc = "idle"
  /\ \E r \in SupabaseUploadRequests :
       Step(s, PostSupabaseUpload(Enter("POST /supabase/upload", r)))

OnSupabaseUploadResponse(s, dr) ==
  /\ handlers[s].pc = "storage-upload"
  /\ Step(s, SupabaseUploadReturn(handlers[s], dr))

OnGetSupabaseSignedUrl(s) ==
  /\ handlers[s].pc = "idle"
  /\ \E r \in SignedUrlRequests :
       Step(s, GetSupabaseSignedUrl(Enter("GET /supabase/signed-url", r)))

OnSupabaseSignResponse(s, dr) ==
  /\ handlers[s].pc = "sign"
  /\ Step(s, SupabaseSignReturn(handlers[s], dr))

\* The call of the quoting API that the POST / handler decided on.
QuoteCall(d) ==
  [to |-> "compulife", step |-> d.do, method |-> "GET", path |-> d.path,
   auth |-> AUTH_ID,
   body |-> IF d.do = "private" THEN ObjV(payload(d.params)) ELSE Undefined]

\* app.post("/") up to its await or answer.
PostRootHandler(h) ==
  LET d == Route([hasBody |-> h.hasBody, body |-> h.body])
  IN  IF d.do = "respond" THEN Answer(h, d.status, d.json)
      ELSE Await(h, "quote", QuoteCall(d))

OnPostRoot(s) ==
  /\ handlers[s].pc = "idle"
  /\ \E r \in RootRequests : Step(s, PostRootHandler(Enter("POST /", r)))

\* res.json(await proxyPublic(...)) or proxyPrivate(...), answered dr.
OnQuoteResponse(s, dr) ==
  /\ handlers[s].pc = "quote"
  /\ Step(s, Answer(Got(handlers[s], dr), 200, ProxyResult(dr)))

OnPostDriveUpload(s, r) ==
  /\ handlers[s].pc = "idle"
  /\ Step(s, PostDriveUpload(Enter("POST /drive/upload", r)))

\* A refresh that forgets the cached token when it fails.
DriveTokenResponse_ForgetsOnFailure(s, dr) ==
  /\ handlers[s].pc = "token"
  /\ handlers' = [handlers EXCEPT ![s] = TokenReturn(handlers[s], dr)]
  /\ IF Refreshed(dr)
     THEN /\ cachedAccessToken' = Prop(JSONparse(dr.text).val, "access_token")
          /\ tokenExpiresAt' = ExpiryOf(dr)
     ELSE cachedAccessToken' = Null /\ tokenExpiresAt' = 0
  /\ UNCHANGED << ver, env, req, pc, calls, resps, fn, arg, out, now >>

\* The token endpoint answers: on success the cache is written, and the
\* handler goes on to its next await.
DriveTokenResponse(s, dr) ==
  /\ handlers[s].pc = "token"
  /\ handlers' = [handlers EXCEPT ![s] = TokenReturn(handlers[s], dr)]
  /\ IF Refreshed(dr)
     THEN /\ cachedAccessToken' = Prop(JSONparse(dr.text).val, "access_token")
          /\ tokenExpiresAt' = ExpiryOf(dr)
     ELSE UNCHANGED << cachedAccessToken, tokenExpiresAt >>
  /\ UNCHANGED << ver, env, req, pc, calls, resps, fn, arg, out, now >>

DriveSearchResponse(s, dr) ==
  /\ handlers[s].pc \in {"search-parent", "search-vendor"}
  /\ Step(s, SearchReturn(handlers[s], dr))

DriveCreateResponse(s, dr) ==
  /\ handlers[s].pc \in {"create-parent", "create-vendor"}
  /\ Step(s, CreateReturn(handlers[s], dr))

DriveUploadResponse(s, dr) ==
  /\ handlers[s].pc = "upload"
  /\ Step(s, UploadReturn(handlers[s], dr))

DrivePermissionResponse(s, dr) ==
  /\ handlers[s].pc = "permission"
  /\ Step(s, PermissionReturn(handlers[s], dr))

\* The positions at which a handler awaits an outbound call.
Awaiting ==
  {"crm", "crm-log", "messages", "ocr", "storage-upload", "sign", "quote",
   "token", "search-parent", "create-parent", "search-vendor",
   "create-vendor", "upload", "permission"}

\* The awaited fetch (or the reading of its body) rejects: the catch block
\* of the route answers 500.
FetchRejects(s) ==
  /\ handlers[s].pc \in Awaiting
  /\ Step(s, Answer(handlers[s], 500, ErrorMessage("fetch failed")))

\* The handler has returned; its slot takes the next request.
HandlerReturns(s) ==
  /\ handlers[s].pc = "done"
  /\ Step(s, IdleHandler)

\* Time passes.
Tick ==
  /\ now < MaxTicks * TickMs
  /\ now' = now + TickMs
  /\ UNCHANGED << ver, env, req, pc, calls, resps, fn, arg, out,
                  handlers, cachedAccessToken, tokenExpiresAt >>

NextHub ==
  \/ \E s \in DOMAIN handlers : OnGhlPlain(s)
  \/ \E s \in DOMAIN handlers : OnGhlBuilt(s)
  \/ \E s \in DOMAIN handlers : OnGhlPhoneCall(s)
  \/ \E s \in DOMAIN handlers, dr \in CommonResponses : OnGhlResponse(s, dr)
  \/ \E s \in DOMAIN handlers, dr \in CommonResponses :
       OnGhlPhoneCallResponse(s, dr)
  \/ \E s \in DOMAIN handlers : OnPostAnthropic(s)
  \/ \E s \in DOMAIN handlers, dr \in CommonResponses :
       OnAnthropicResponse(s, dr)
  \/ \E s \in DOMAIN handlers : OnPostVisionOcr(s)
  \/ \E s \in DOMAIN handlers, dr \in CommonResponses \cup OcrResponses :
       OnVisionResponse(s, dr)
  \/ \E s \in DOMAIN handlers : OnPostSupabaseUpload(s)
  \/ \E s \in DOMAIN handlers, dr \in CommonResponses :
       OnSupabaseUploadResponse(s, dr)
  \/ \E s \in DOMAIN handlers : OnGetSupabaseSignedUrl(s)
  \/ \E s \in DOMAIN handlers, dr \in CommonResponses \cup SignResponses :
       OnSupabaseSignResponse(s, dr)
  \/ \E s \in DOMAIN handlers : OnPostRoot(s)
  \/ \E s \in DOMAIN handlers, dr \in CommonResponses : OnQuoteResponse(s, dr)
  \/ \E s \in DOMAIN handlers, r \in DriveRequests : OnPostDriveUpload(s, r)
  \/ \E s \in DOMAIN handlers, dr \in CommonResponses \cup TokenResponses :
       DriveTokenResponse(s, dr)
  \/ \E s \in DOMAIN handlers, dr \in CommonResponses \cup SearchResponses :
       DriveSearchResponse(s, dr)
  \/ \E s \in DOMAIN handlers, dr \in CommonResponses \cup FileResponses :
       DriveCreateResponse(s, dr)
  \/ \E s \in DOMAIN handlers, dr \in CommonResponses \cup FileResponses :
       DriveUploadResponse(s, dr)
  \/ \E s \in DOMAIN handlers, dr \in CommonResponses :
       DrivePermissionResponse(s, dr)
  \/ \E s \in DOMAIN handlers : FetchRejects(s)
  \/ \E s \in DOMAIN handlers : HandlerReturns(s)
  \/ Tick

SpecHub ==
  InitHub /\ [][NextHub]_vars

----------------------------------------------------------------------------
(* Properties of the hub, under SpecHub.                                   *)

Slots ==
  DOMAIN handlers

\* The last downstream response a handler received.
LastDown(h) ==
  h.down[Len(h.down)]

\* { raw: <text>, status: <status> }
RawWrapper(dr) ==
  ObjV(<< Entry("raw", Str(dr.text)), Entry("status", Num(dr.status)) >>)

\* C11: for a downstream body that is valid JSON the quoting dispatcher
\* returns exactly the parsed structure, and for a body that is not valid
\* JSON exactly {raw: <original text>, status: <downstream status>}; an
\* unparseable body never makes it throw: the POST / handler answers 200
\* with that result, whatever the downstream status.
C11_ProxyReturnsParsedOrRaw ==
  \A s \in Slots :
    LET h == handlers[s]
    IN  (h.route = "POST /" /\ h.down # << >>) =>
          /\ h.pc = "done"
          /\ Len(h.resps) = 1
          /\ h.resps[1].status = 200
          /\ IF JSONparse(LastDown(h).text).ok
             THEN h.resps[1].json = JSONparse(LastDown(h).text).val
             ELSE h.resps[1].json = RawWrapper(LastDown(h))

\* A quote call was answered with HTML under an error status and the
\* handler answered with the raw wrapper.
C11_Witness ==
  \E s \in Slots :
    /\ handlers[s].route = "POST /"
    /\ handlers[s].down = << [status |-> 502, text |-> "<html>"] >>
    /\ handlers[s].calls[1].step = "private"
    /\ handlers[s].resps[1].json = RawWrapper([status |-> 502,
                                               text |-> "<html>"])

\* The routes over ghlFetch.
IsGhl(h) ==
  h.route \in {g.route : g \in GhlPlainRoutes \cup GhlBuiltRoutes}
              \cup {"POST /ghl/phone/call"}

\* What ghlFetch handed to the route, read off the route's answer.
GhlResult(h) ==
  IF h.route = "POST /ghl/phone/call"
  THEN Prop(h.resps[1].json, "ghlLog") ELSE h.resps[1].json

\* C12: in the bearer-token convention too, a response body that cannot be
\* parsed is returned as {raw: <text>, status: <http-status>} and causes no
\* failure: ghlFetch hands the wrapper back (as its result, or as the data
\* of its error envelope), and the AI, Drive, OCR and object-storage
\* handlers do not fail on it.
C12_BearerUnparseableWrapped ==
  \A s \in Slots :
    LET h == handlers[s]
    IN  (/\ h.route \notin {"none", "POST /"}
         /\ h.down # << >>
         /\ ~JSONparse(LastDown(h).text).ok) =>
          /\ ~(h.pc = "done" /\ h.resps[1].json = JsonSyntaxError)
          /\ (IsGhl(h) /\ h.pc = "done") =>
               IF Ok(LastDown(h))
               THEN GhlResult(h) = RawWrapper(LastDown(h))
               ELSE Prop(GhlResult(h), "data") = RawWrapper(LastDown(h))

\* { error: true, status, message, data } with the status of dr.
IsErrorEnvelope(v, dr) ==
  /\ v.t = "obj"
  /\ Keys(v.o) = {"error", "status", "message", "data"}
  /\ Prop(v, "error") = Bool(TRUE)
  /\ Prop(v, "status") = Num(dr.status)

\* C13: when the CRM answers with a non-success status, ghlFetch does not
\* throw: it returns the envelope {error: true, status, message, data} with
\* the downstream status, and the /ghl route sends a normal JSON response
\* (HTTP 200) that carries the envelope.
C13_GhlNonSuccessEnvelope ==
  \A s \in Slots :
    LET h == handlers[s]
    IN  (IsGhl(h) /\ h.down # << >> /\ ~Ok(LastDown(h))) =>
          /\ h.pc = "done"
          /\ h.resps[1].status = 200
          /\ IsErrorEnvelope(GhlResult(h), LastDown(h))

\* C14: with the AI key unset, POST /anthropic with any body (passthrough
\* form, simplified form, missing image, no body at all) is answered
\* HTTP 500 with a message naming ANTHROPIC_API_KEY, and no outbound call
\* is issued.
C14_AnthropicUnconfigured ==
  \A s \in Slots :
    LET h == handlers[s]
    IN  (h.route = "POST /anthropic" /\ ANTHROPIC_API_KEY = "") =>
          /\ h.pc = "done"
          /\ h.calls = << >>
          /\ h.resps =
               << [status |-> 500,
                   json |-> ObjV(<< Entry("error",
                              Str("ANTHROPIC_API_KEY not configured")) >>)] >>

\* The key is unset and a passthrough request was answered.
C14_Witness ==
  \E s \in Slots :
    /\ handlers[s].route = "POST /anthropic"
    /\ ANTHROPIC_API_KEY = ""
    /\ DOMAIN handlers[s].body = {"model", "messages"}
    /\ handlers[s].pc = "done"

\* The credential the handler's integration requires is empty.
Unconfigured(h) ==
  \/ /\ h.route = "POST /"
     /\ Route([hasBody |-> h.hasBody, body |-> h.body]).do = "private"
     /\ AUTH_ID = ""
  \/ /\ IsGhl(h)
     /\ h.route = "POST /ghl/phone/call" => Truthy(In(h, "contactId"))
     /\ GHL_API_KEY = ""
  \/ h.route = "POST /anthropic" /\ ANTHROPIC_API_KEY = ""
  \/ /\ h.route = "POST /drive/upload"
     /\ "" \in {GOOGLE_CLIENT_ID, GOOGLE_CLIENT_SECRET, GOOGLE_REFRESH_TOKEN}
  \/ h.route = "POST /vision/ocr" /\ GCP_VISION_API_KEY = ""
  \/ /\ h.route \in {"POST /supabase/upload", "GET /supabase/signed-url"}
     /\ SUPABASE_SERVICE_KEY = ""

\* The answer says that something is not configured.
SaysNotConfigured(json) ==
  {Prop(json, "error"), Prop(json, "message")}
  \cap {Str("ANTHROPIC_API_KEY not configured"),
        Str("Google Drive not configured"),
        Str("GCP_VISION_API_KEY not configured"),
        Str("SUPABASE_SERVICE_KEY not configured"),
        Str("COMPULIFE_AUTH_ID not configured"),
        Str("GHL_API_KEY not configured")} # {}

\* C15: for every integration (quoting API, CRM, AI, Drive, OCR, object
\* storage), when its required credential is empty at call time the handler
\* answers HTTP 500 with a 'not configured' message and issues no outbound
\* call.
C15_UnconfiguredAnswers500 ==
  \A s \in Slots :
    LET h == handlers[s]
    IN  Unconfigured(h) =>
          /\ h.pc = "done"
          /\ h.calls = << >>
          /\ h.resps[1].status = 500
          /\ SaysNotConfigured(h.resps[1].json)

\* The handlers that hand a downstream error status on as their own: at the
\* upload of /drive/upload, at the OCR call and at the two storage calls.
PropagatesStatus(h) ==
  h.route \in {"POST /vision/ocr", "POST /supabase/upload",
               "GET /supabase/signed-url"}
  \/ (h.route = "POST /drive/upload"
      /\ h.calls[Len(h.calls)].step = "upload")

\* The handler's awaited call rejected: it is done with a call that no
\* response answered.
Rejected(h) ==
  h.pc = "done" /\ Len(h.calls) > Len(h.down)

\* C16 as claimed: for every handler, when a third-party call returns a
\* non-success status the HTTP status of the relay's response equals that
\* downstream status, and when the call throws the response status is 500.
C16_DownstreamStatusPropagated ==
  \A s \in Slots :
    LET h == handlers[s]
    IN  /\ (h.pc = "done" /\ h.down # << >> /\ Len(h.down) = Len(h.calls)
            /\ ~Ok(LastDown(h))) =>
              h.resps[1].status = LastDown(h).status
        /\ Rejected(h) => h.resps[1].status = 500

\* C16 as the code has it: a downstream error status is the status of the
\* relay's response only at the Drive upload, the OCR call and the two
\* storage calls, and there only for a JSON body other than null (else
\* 500). A failed token refresh or folder create is answered 500, the
\* status of a folder search or of the permission grant is not looked at,
\* and the /ghl routes, /anthropic and POST / answer 200 to a downstream
\* error (500 when the body makes ghlFetch or response.json() throw). A
\* call that throws is always answered 500.
C16_StatusByRoute ==
  \A s \in Slots :
    LET h == handlers[s]
        dr == LastDown(h)
        bad == h.down # << >> /\ Len(h.down) = Len(h.calls) /\ ~Ok(dr)
        json == JSONparse(dr.text).ok /\ ~Nullish(JSONparse(dr.text).val)
    IN  /\ Rejected(h) => h.resps[1].status = 500
        /\ (bad /\ h.pc = "done" /\ PropagatesStatus(h)) =>
             h.resps[1].status = IF json THEN dr.status ELSE 500
        /\ (bad /\ h.route = "POST /drive/upload"
            /\ h.calls[Len(h.calls)].step \in {"token", "create"}) =>
             (h.pc = "done" /\ h.resps[1].status = 500)
        /\ (bad /\ h.pc = "done" /\ h.route = "POST /drive/upload"
            /\ h.calls[Len(h.calls)].step = "permission") =>
             h.resps[1].status = 200
        /\ (bad /\ IsGhl(h)) =>
             (h.pc = "done"
              /\ h.resps[1].status = IF dr.text = "null" THEN 500 ELSE 200)
        /\ (bad /\ h.route = "POST /anthropic") =>
             (h.pc = "done"
              /\ h.resps[1].status
                   = IF JSONparse(dr.text).ok THEN 200 ELSE 500)
        /\ (bad /\ h.route = "POST /") =>
             (h.pc = "done" /\ h.resps[1].status = 200)

\* The object storage refused an upload with 401 and the relay answered
\* 401.
C16_Witness ==
  \E s \in Slots :
    /\ handlers[s].pc = "done"
    /\ handlers[s].route = "POST /supabase/upload"
    /\ handlers[s].down # << >>
    /\ LastDown(handlers[s]).status = 401
    /\ handlers[s].resps[1].status = 401

\* C17: every handler's failure path returns a response. In every state a
\* handler that has started either awaits exactly one outbound call and
\* has sent nothing, or has no call pending and has sent exactly one
\* response: no exception leaves a handler and no request stays unanswered
\* once its outbound calls have settled. And wherever an awaited call or
\* the reading of the request body throws, the one response is the error
\* envelope {error: true, message} under status 500.
C17_FailurePathAnswers ==
  \A s \in Slots :
    LET h == handlers[s]
    IN  /\ h.pc \in Awaiting \cup {"idle", "done"}
        /\ h.pc = "idle" => h = IdleHandler
        /\ h.pc \in Awaiting =>
             (h.resps = << >> /\ Len(h.calls) = Len(h.down) + 1)
        /\ h.pc = "done" =>
             (Len(h.resps) = 1 /\ Len(h.calls) - Len(h.down) \in {0, 1})
        /\ Rejected(h) =>
             h.resps = << [status |-> 500,
                           json |-> ErrorMessage("fetch failed")] >>
        /\ (h.pc = "done" /\ ~h.hasBody /\ h.calls = << >>
            /\ h.route \notin {"none", "POST /"} /\ ~Unconfigured(h)
            /\ h.route \notin {g.route : g \in GhlPlainRoutes}) =>
             h.resps = << [status |-> 500, json |-> BodyTypeError] >>

\* A Drive upload whose permission call threw, after four calls that went
\* well, was answered 500.
C17_Witness ==
  \E s \in Slots :
    /\ handlers[s].route = "POST /drive/upload"
    /\ Rejected(handlers[s])
    /\ handlers[s].calls[Len(handlers[s].calls)].step = "permission"
    /\ handlers[s].resps[1].status = 500

\* The downstream step a call belongs to, in the words of the contract.
StepOf(call) ==
  CASE call.to = "compulife" -> "quote"
    [] call.to = "ghl" -> "crm"
    [] call.to = "supabase" /\ call.step = "upload" -> "storage-upload"
    [] OTHER -> call.step

\* The positions of h's calls that belong to step.
Issued(h, step) ==
  {i \in DOMAIN h.calls : StepOf(h.calls[i]) = step}

Configuration ==
  << ver, env, GHL_API_KEY, GHL_LOCATION_ID, ANTHROPIC_API_KEY,
     SUPABASE_SERVICE_KEY, SUPABASE_URL, SUPABASE_BUCKET, GOOGLE_CLIENT_ID,
     GOOGLE_CLIENT_SECRET, GOOGLE_REFRESH_TOKEN, GOOGLE_DRIVE_FOLDER_ID,
     GCP_VISION_API_KEY >>

\* C19: the only state shared between requests that ever changes is the
\* cached access token. A step that changes cachedAccessToken or
\* tokenExpiresAt is a step of a /drive/upload handler that was awaiting
\* its token refresh; a step of a handler of any other route leaves both
\* unchanged; and no step of any handler changes a configuration value.
C19_OnlyTokenIsShared ==
  [][/\ Configuration' = Configuration
     /\ (cachedAccessToken' # cachedAccessToken
         \/ tokenExpiresAt' # tokenExpiresAt) =>
          \E s \in Slots :
            /\ handlers[s].route = "POST /drive/upload"
            /\ handlers[s].pc = "token"
            /\ handlers'[s] # handlers[s]
     /\ \A s \in Slots :
          (handlers'[s] # handlers[s]
           /\ "POST /drive/upload" \notin
                {handlers[s].route, handlers'[s].route}) =>
            /\ cachedAccessToken' = cachedAccessToken
            /\ tokenExpiresAt' = tokenExpiresAt]_vars

\* A request on another route has been answered with an error while a
\* token is cached: the cache is still there.
C19_Witness ==
  \E s \in Slots :
    /\ handlers[s].route \notin {"none", "POST /drive/upload"}
    /\ handlers[s].pc = "done"
    /\ handlers[s].resps[1].status = 500
    /\ Truthy(cachedAccessToken)
    /\ tokenExpiresAt > 0

----------------------------------------------------------------------------
(* SpecRace: two /drive/upload requests in flight at once, every           *)
(* integration configured. Node runs one handler at a time from one await  *)
(* to the next, so the steps of the two handlers interleave at the awaits. *)

RaceSlots ==
  {1, 2}

\* Uploads with and without a vendor folder.
RaceRequests ==
  {WithBody([k \in {"fileData"} |-> Str("AAAA")]),
   WithBody([k \in {"fileData", "vendorFolder", "fileName"} |->
               CASE k = "fileData" -> Str("AAAA")
                 [] k = "vendorFolder" -> Str("Acme")
                 [] k = "fileName" -> Str("lead.pdf")])}

\* What the token endpoint answers: a long-lived token, a token that is
\* inside the refresh margin from the start, or a refusal.
RaceTokenResponses ==
  TokenResponses \cup {[status |-> 401, text |-> "{\"message\":\"denied\"}"]}

\* A search that finds the folder, one that finds it twice and one that
\* does not find it.
RaceSearchResponses ==
  SearchResponses
  \cup {[status |-> 200,
         text |-> "{\"files\":[{\"id\":\"F1\"},{\"id\":\"F3\"}]}"],
        [status |-> 200, text |-> "{\"ok\":true}"]}

RaceOkResponses ==
  {[status |-> 200, text |-> "{\"id\":\"F2\",\"name\":\"lead.pdf\"}"]}

InitRace ==
  /\ ver = "7.2"
  /\ env = FullEnv
  /\ handlers = [s \in RaceSlots |-> IdleHandler]
  /\ cachedAccessToken = Null
  /\ tokenExpiresAt = 0
  /\ now = 0
  /\ req = NoReq
  /\ pc = "idle"
  /\ calls = << >>
  /\ resps = << >>
  /\ fn = "none"
  /\ arg = << >>
  /\ out = << >>

NextRace ==
  \/ \E s \in DOMAIN handlers, r \in RaceRequests : OnPostDriveUpload(s, r)
  \/ \E s \in DOMAIN handlers, dr \in RaceTokenResponses :
       DriveTokenResponse(s, dr)
  \/ \E s \in DOMAIN handlers, dr \in RaceSearchResponses :
       DriveSearchResponse(s, dr)
  \/ \E s \in DOMAIN handlers, dr \in RaceOkResponses :
       DriveCreateResponse(s, dr)
  \/ \E s \in DOMAIN handlers, dr \in FileResponses :
       DriveUploadResponse(s, dr)
  \/ \E s \in DOMAIN handlers, dr \in RaceOkResponses :
       DrivePermissionResponse(s, dr)
  \/ \E s \in DOMAIN handlers : FetchRejects(s)
  \/ \E s \in DOMAIN handlers : HandlerReturns(s)
  \/ Tick

SpecRace ==
  InitRace /\ [][NextRace]_vars

\* C20: token refresh is not single-flight. Every handler that is waiting
\* for an access token has issued a refresh request of its own, whatever
\* the other handlers are doing, and a handler that issued none took its
\* token from the cache; so two /drive/upload requests that find the cache
\* empty or expired have two refreshes in flight at once (C20_Witness).
C20_EachCallerRefreshes ==
  \A s \in Slots :
    LET h == handlers[s]
    IN  /\ h.pc = "token" =>
             (h.calls = << TokenCall >> /\ h.down = << >>)
        /\ (h.calls # << >> /\ h.calls[1] # TokenCall) =>
             (Truthy(h.accessToken) /\ h.calls[1].auth = h.accessToken)

\* Two refreshes in flight at once, the second one issued after the token
\* that an earlier refresh had cached ran out.
C20_Witness ==
  /\ handlers[1].pc = "token"
  /\ handlers[2].pc = "token"
  /\ handlers[1].calls = << TokenCall >>
  /\ handlers[2].calls = << TokenCall >>
  /\ Truthy(cachedAccessToken)
  /\ ~TokenFresh

\* The slot's /drive/upload handler has got past its checks in this step:
\* it was idle and now holds a token or awaits one.
CallsGetToken(s) ==
  /\ handlers[s].pc = "idle"
  /\ handlers'[s].route = "POST /drive/upload"
  /\ (handlers'[s].accessToken # Undefined \/ handlers'[s].calls # << >>)

\* The slot's handler has received a successful answer to its refresh in
\* this step.
RefreshSucceeds(s) ==
  /\ handlers[s].pc = "token"
  /\ Len(handlers'[s].down) = 1
  /\ handlers'[s].down[1].status \in 200..299
  /\ JSONparse(handlers'[s].down[1].text).ok
  /\ Truthy(Prop(JSONparse(handlers'[s].down[1].text).val, "access_token"))

\* C21: getGoogleAccessToken returns the cached token, with no outbound
\* call, exactly when a token is cached and the time is more than 60
\* seconds before its recorded expiry; otherwise it issues one refresh
\* call, and when that call succeeds the new token is stored with expiry
\* now + expires_in seconds and is the token the handler goes on with.
C21_CacheOrRefresh ==
  [][\A s \in Slots :
       /\ CallsGetToken(s) =>
            IF Truthy(cachedAccessToken) /\ tokenExpiresAt - now > 60 * 1000
            THEN /\ handlers'[s].accessToken = cachedAccessToken
                 /\ \A i \in DOMAIN handlers'[s].calls :
                      handlers'[s].calls[i] # TokenCall
            ELSE /\ handlers'[s].calls = << TokenCall >>
                 /\ handlers'[s].accessToken = Undefined
       /\ RefreshSucceeds(s) =>
            LET data == JSONparse(handlers'[s].down[1].text).val
            IN  /\ cachedAccessToken' = Prop(data, "access_token")
                /\ tokenExpiresAt' = now + Prop(data, "expires_in").n * 1000
                /\ handlers'[s].accessToken = cachedAccessToken']_vars

\* A handler that went on with the cached token while an hour's token was
\* half an hour old, and issued a call with it.
C21_Witness ==
  \E s \in Slots :
    /\ handlers[s].route = "POST /drive/upload"
    /\ handlers[s].calls # << >>
    /\ handlers[s].calls[1] # TokenCall
    /\ handlers[s].accessToken = cachedAccessToken
    /\ now > 0
    /\ tokenExpiresAt - now > 60 * 1000

\* The field k of the handler's request body is present.
Present(h, k) ==
  k \in DOMAIN h.body

\* The field k of the handler's request body is present and truthy.
Given(h, k) ==
  k \in DOMAIN h.body /\ Truthy(h.body[k])

\* The body of the handler's one outbound call is the inbound body, key
\* by key.
ForwardsBody(h) ==
  /\ Len(h.calls) = 1
  /\ h.calls[1].to = "anthropic"
  /\ h.calls[1].body.t = "obj"
  /\ Keys(h.calls[1].body.o) = DOMAIN h.body
  /\ \A k \in DOMAIN h.body : Prop(h.calls[1].body, k) = h.body[k]

\* The handler's one outbound call is a request of a single user message
\* with exactly one image block and one text block; the media type and
\* the prompt are those of the request, or the defaults.
SendsImageRequest(h, mediaGiven, promptGiven) ==
  /\ Len(h.calls) = 1
  /\ h.calls[1].to = "anthropic"
  /\ LET messages == Prop(h.calls[1].body, "messages")
         content == Prop(Prop(messages, "0"), "content")
         image == Prop(content, "0")
         text == Prop(content, "1")
     IN  /\ Keys(messages.o) = {"0"}
         /\ Prop(Prop(messages, "0"), "role") = Str("user")
         /\ Keys(content.o) = {"0", "1"}
         /\ Prop(image, "type") = Str("image")
         /\ Prop(Prop(image, "source"), "data") = h.body["image"]
         /\ Prop(Prop(image, "source"), "media_type") =
              (IF mediaGiven THEN h.body["media_type"] ELSE Str("image/png"))
         /\ Prop(text, "type") = Str("text")
         /\ Prop(text, "text") =
              (IF promptGiven THEN h.body["prompt"]
               ELSE Str("Extract all text from this lead card. Return JSON."))

\* The handler answered 400 and issued no call.
Refused400(h) ==
  /\ h.calls = << >>
  /\ h.pc = "done"
  /\ Len(h.resps) = 1
  /\ h.resps[1].status = 400

RequiredField ==
  [r \in {"POST /drive/upload", "POST /vision/ocr", "POST /supabase/upload",
          "GET /supabase/signed-url"} |->
     CASE r = "POST /drive/upload" ->
            [field |-> "fileData", message |-> "fileData (base64) required"]
       [] r = "GET /supabase/signed-url" ->
            [field |-> "path", message |-> "path query param required"]
       [] OTHER ->
            [field |-> "imageData",
             message |-> "imageData (base64) required"]]

DriveRank(call) ==
  CASE call.step = "token" -> 1
    [] call.step \in {"search", "create"}
         /\ Prop(call.body, "parent") = Str("root") -> 2
    [] call.step \in {"search", "create"} -> 3
    [] call.step = "upload" -> 4
    [] OTHER -> 5

\* C24: a /drive/upload request issues its outbound steps in the order
\* token acquisition, parent-folder lookup-or-create (only when no folder
\* id is configured), vendor-folder lookup-or-create (only when
\* vendorFolder is given), multipart upload, permission grant. The
\* permission grant is issued only after an upload that returned success;
\* when the upload returns a non-success status no permission grant is
\* issued and the response carries the upload's status.
C24_DriveStepOrder ==
  \A s \in Slots :
    LET h == handlers[s]
        c == h.calls
    IN  h.route = "POST /drive/upload" =>
          /\ \A i, j \in DOMAIN c :
               i < j =>
                 /\ DriveRank(c[i]) <= DriveRank(c[j])
                 /\ DriveRank(c[i]) = DriveRank(c[j]) =>
                      (c[i].step = "search" /\ c[j].step = "create"
                       /\ j = i + 1)
          /\ \A i \in DOMAIN c :
               /\ DriveRank(c[i]) = 2 => GOOGLE_DRIVE_FOLDER_ID = ""
               /\ DriveRank(c[i]) = 3 =>
                    (Given(h, "vendorFolder")
                     /\ Prop(c[i].body, "name") = h.body["vendorFolder"])
               /\ c[i].step = "upload" =>
                    /\ GOOGLE_DRIVE_FOLDER_ID = "" =>
                         \E k \in 1..(i - 1) : DriveRank(c[k]) = 2
                    /\ Given(h, "vendorFolder") =>
                         \E k \in 1..(i - 1) : DriveRank(c[k]) = 3
               /\ c[i].step = "permission" =>
                    /\ i > 1
                    /\ c[i - 1].step = "upload"
                    /\ Ok(h.down[i - 1])
               /\ (c[i].step = "upload" /\ i \in DOMAIN h.down
                   /\ ~Ok(h.down[i])) =>
                    /\ Len(c) = i
                    /\ h.pc = "done"
                    /\ h.resps[1].status = h.down[i].status

\* The times at which a response can have been processed.
Times ==
  {k * TickMs : k \in 0..(MaxTicks + 1)}

\* Token and expiry are those of the response dr processed at time t.
CacheHolds(dr, t) ==
  /\ cachedAccessToken = Prop(JSONparse(dr.text).val, "access_token")
  /\ tokenExpiresAt = t + Prop(JSONparse(dr.text).val, "expires_in").n * 1000

\* C25: cachedAccessToken and tokenExpiresAt are written together from
\* one and the same refresh response. In every state the recorded expiry
\* belongs to the cached token (both from one response, processed at a
\* time not in the future, or nothing cached); every step that processes
\* a successful refresh response writes both from that response, whatever
\* refreshes of other handlers are in flight or were processed before,
\* and no other step writes either. So with overlapping refreshes the
\* cache holds the token of the response processed last, which need not
\* be the refresh issued last (C25_Witness).
C25_TokenAndExpiryFromOneResponse ==
  /\ [](\/ cachedAccessToken = Null /\ tokenExpiresAt = 0
        \/ \E dr \in TokenResponses, t \in Times :
             t <= now /\ CacheHolds(dr, t))
  /\ [][/\ \A s \in Slots :
            RefreshSucceeds(s) =>
              LET data == JSONparse(handlers'[s].down[1].text).val
              IN  /\ cachedAccessToken' = Prop(data, "access_token")
                  /\ tokenExpiresAt' =
                       now + Prop(data, "expires_in").n * 1000
        /\ (cachedAccessToken' # cachedAccessToken
            \/ tokenExpiresAt' # tokenExpiresAt) =>
             \E s \in Slots : RefreshSucceeds(s)]_vars

\* Two refreshes overlapped; the one issued later was processed first, and
\* the cache holds the token of the one issued earlier, with its expiry.
C25_Witness ==
  \E s, u \in Slots :
    /\ handlers[s].calls # << >> /\ handlers[s].calls[1] = TokenCall
    /\ handlers[u].calls # << >> /\ handlers[u].calls[1] = TokenCall
    /\ handlers[s].issuedAt < handlers[u].issuedAt
    /\ Truthy(handlers[s].accessToken)
    /\ Truthy(handlers[u].accessToken)
    /\ handlers[s].accessToken # handlers[u].accessToken
    /\ cachedAccessToken = handlers[s].accessToken
    /\ \E dr \in TokenResponses :
         /\ handlers[s].down[1] = dr
         /\ CacheHolds(dr, now)

\* The slot's handler has seen its refresh fail in this step: the call
\* threw, or was answered with a non-success status, a body that is not
\* JSON, or a body without access_token.
RefreshFails(s) ==
  /\ handlers[s].pc = "token"
  /\ handlers'[s] # handlers[s]
  /\ ~RefreshSucceeds(s)

\* C26: a failed token refresh leaves cachedAccessToken and tokenExpiresAt
\* unchanged, and the /drive/upload request that triggered it is answered
\* HTTP 500 with the error envelope, its one outbound call being the
\* refresh: no folder, upload or permission call is issued.
C26_FailedRefreshLeavesCache ==
  [][\A s \in Slots :
       RefreshFails(s) =>
         /\ cachedAccessToken' = cachedAccessToken
         /\ tokenExpiresAt' = tokenExpiresAt
         /\ handlers'[s].pc = "done"
         /\ handlers'[s].calls = << TokenCall >>
         /\ Len(handlers'[s].resps) = 1
         /\ handlers'[s].resps[1].status = 500
         /\ Prop(handlers'[s].resps[1].json, "error") = Bool(TRUE)
         /\ (Len(handlers'[s].down) = 1
             /\ JSONparse(handlers'[s].down[1].text).ok
             /\ ~Nullish(JSONparse(handlers'[s].down[1].text).val)) =>
              handlers'[s].resps[1].json =
                ErrorMessage("Failed to refresh Google token: unknown")]_vars

\* A refresh was refused with 401 while a token that had run out was
\* still cached: the request was answered 500 and the token is still
\* there.
C26_Witness ==
  \E s \in Slots :
    /\ handlers[s].calls = << TokenCall >>
    /\ Len(handlers[s].down) = 1
    /\ handlers[s].down[1].status = 401
    /\ handlers[s].resps[1].status = 500
    /\ Truthy(cachedAccessToken)
    /\ tokenExpiresAt > 0

\* The ids of the folders a search response lists.
Matches(dr) ==
  LET p == JSONparse(dr.text)
  IN  IF p.ok /\ Prop(p.val, "files").t = "arr"
      THEN Prop(p.val, "files").l ELSE << >>

C28_LocationIdFromConfig ==
  \A s \in Slots :
    LET h == handlers[s]
    IN  h.route \in {"POST /ghl/contacts", "POST /ghl/opportunities"} =>
          /\ Len(h.calls) = 1
          /\ h.calls[1].method = "POST"
          /\ h.calls[1].body.t = "obj"
          /\ Prop(h.calls[1].body, "locationId") = Str(env.GHL_LOCATION_ID)
          /\ Keys(h.calls[1].body.o) =
               (IF h.hasBody THEN DOMAIN h.body ELSE {}) \cup {"locationId"}
          /\ h.hasBody =>
               \A k \in DOMAIN h.body \ {"locationId"} :
                 Prop(h.calls[1].body, k) = h.body[k]

\* A request carrying its own locationId was sent on to the CRM with the
\* configured one, and the CRM has answered.
C28_Witness ==
  \E s \in Slots :
    /\ handlers[s].route = "POST /ghl/opportunities"
    /\ handlers[s].hasBody
    /\ "locationId" \in DOMAIN handlers[s].body
    /\ handlers[s].body["locationId"] # Str(env.GHL_LOCATION_ID)
    /\ Len(handlers[s].down) = 1
    /\ Prop(handlers[s].calls[1].body, "locationId") = Str("loc-1")

\* The whitelist the running variant applies to a quote action.
QuoteWhitelist(action) ==
  CASE ver \in {"1.0", "2.0"} /\ action = Str("quote-health") ->
         ListSet(required) \cup ListSet(optional) \cup ListSet(healthFields)
    [] ver \in {"1.0", "2.0"} -> ListSet(required) \cup ListSet(optional)
    [] ver = "6.1" -> ListSet(fields_v61)
    [] ver = "6.3" -> ListSet(fields_v63)
    [] OTHER -> ListSet(fields)

\* The request in flight is a quote request of the running variant.
IsQuoteRequest ==
  /\ pc = "fetching"
  /\ ActionOf(req) \in {Str("quote-compare"), Str("quote-sidebyside"),
                        Str("quote-compareall"), Str("quote-health")}
  /\ calls[1].kind = "private"

\* The request r names the action of the request in flight and agrees
\* with it on every whitelisted field: the field is absent from both, or
\* present in both with the same value.
AgreesOnWhitelist(r) ==
  /\ r.hasBody
  /\ ActionOf(r) = ActionOf(req)
  /\ \A k \in QuoteWhitelist(ActionOf(req)) :
       /\ k \in DOMAIN r.body <=> k \in DOMAIN req.body
       /\ k \in DOMAIN r.body => r.body[k] = req.body[k]

\* The fields of body that the whitelist W or the route keeps: the
\* whitelisted fields and the action.
Restricted(body, W) ==
  [k \in DOMAIN body \cap (W \cup {"action"}) |-> body[k]]

\* The body b with the fields of extra added.
Merged(b, extra) ==
  [k \in DOMAIN b \cup DOMAIN extra |->
     IF k \in DOMAIN extra THEN extra[k] ELSE b[k]]

\* No other field, or one other field, of every kind the routes read.
Distractors ==
  Mappings(RouteKeys, RouteValues, 1)

\* C29: two quote requests whose bodies agree on the action and on every
\* whitelisted field produce the same outbound call, path and embedded
\* JSON, whatever other fields the two bodies hold. Two such bodies have
\* the same restriction to the action and the whitelist; the call issued
\* for the request in flight is the call of its restriction, alone and
\* with any other field added, and so is the call of every request that
\* agrees with it.
C29_NonWhitelistedFieldsDoNotInterfere ==
  IsQuoteRequest =>
    LET W == QuoteWhitelist(ActionOf(req))
    IN  \A extra \in Distractors :
          DOMAIN extra \cap (W \cup {"action"}) = {} =>
            CallOf(Route(WithBody(Merged(Restricted(req.body, W), extra))))
              = calls[1]

\* A quote request with a field of no whitelist is in flight in 7.2, and
\* a request with another such field agrees with it.
C29_Witness ==
  /\ IsQuoteRequest
  /\ ver = "7.2"
  /\ "Evil" \in DOMAIN req.body
  /\ \E r \in Requests :
       /\ AgreesOnWhitelist(r)
       /\ "REMOTE_IP" \in DOMAIN r.body
       /\ CallOf(Route(r)) = calls[1]

\* C30: the outcome of the permission grant is never inspected. A
\* /drive/upload handler whose permission call has been answered, with
\* whatever status and body, answers HTTP 200 success: true with the id of
\* the uploaded file; it answers 500 only when the permission call
\* throws. In both cases the permission call followed an upload that was
\* answered with success, so the file is already uploaded.
C30_PermissionOutcomeIgnored ==
  \A s \in Slots :
    LET h == handlers[s]
        n == Len(h.calls)
    IN  (n > 0 /\ h.calls[n].step = "permission" /\ h.pc = "done") =>
          /\ n > 1
          /\ h.calls[n - 1].step = "upload"
          /\ Ok(h.down[n - 1])
          /\ Len(h.resps) = 1
          /\ IF Len(h.down) = n
             THEN /\ h.resps[1].status = 200
                  /\ Prop(h.resps[1].json, "success") = Bool(TRUE)
                  /\ Prop(h.resps[1].json, "fileId") =
                       Prop(JSONparse(h.down[n - 1].text).val, "id")
             ELSE /\ h.resps[1].status = 500
                  /\ Prop(h.resps[1].json, "error") = Bool(TRUE)

\* The permission call was refused with 401, and the request was answered
\* success: true with the id of the file.
C30_Witness ==
  \E s \in Slots :
    LET h == handlers[s]
        n == Len(h.calls)
    IN  /\ n > 1
        /\ h.calls[n].step = "permission"
        /\ Len(h.down) = n
        /\ h.down[n].status = 401
        /\ h.resps[1].status = 200
        /\ Prop(h.resps[1].json, "fileId") = Str("F2")

====
